---- MODULE Spec2Model ----
(***************************************************************************)
(* The ingredient cabinet screen (MyIngredientsScreen) of                  *)
(* frontend/app/(tabs)/cabinet.tsx: the in-memory ingredient list, its     *)
(* debounced mirror in AsyncStorage and its debounced reconciliation with  *)
(* the remote pantry API.                                                  *)
(*                                                                         *)
(* Quantities are fractions 0..1 in the source; here they are integers in  *)
(* thousandths (0.9 is 900), so that the 0.01 tolerance is 10.             *)
(* A JavaScript object is a record whose domain is the set of keys the     *)
(* object has; a Map is a sequence of <<key, value>> pairs in insertion    *)
(* order.  One action is one macrotask: a user event, a timer firing or    *)
(* the arrival of a response, run up to the next await of a request.       *)
(***************************************************************************)
EXTENDS Integers, Sequences, FiniteSets, TLC

\* ---------------------------------------------------------------- bounds
MaxEvents == 2    \* user mutations, failed requests or writes, and passes
                  \* started while another is in flight, in one run
MaxPasses == 2    \* reconciliation passes in flight at once
MaxClock == 1     \* entries added from the catalog in one run

\* ------------------------------------------------------------- constants
DefaultQty == 1000   \* qty ?? 1   (1 = full)
Tolerance == 10      \* 0.01

\* AsyncStorage holds at most one text under STORAGE_KEY: <<>> is getItem's null
null == <<>>

\* ------------------------------------------------------------ vocabulary
\* String.prototype.toLowerCase on the names of the model
toLowerCase(s) ==
  CASE s = "Lime" -> "lime"
    [] s = "Mint" -> "mint"
    [] OTHER -> s

\* utils/normalize: the display name of a free-text ingredient name
normalizeIngredient(raw) ==
  [displayName |-> CASE raw \in {"lime", "Lime"} -> "Lime"
                     [] raw \in {"mint", "Mint"} -> "Mint"
                     [] OTHER -> raw,
   canonicalName |-> toLowerCase(raw)]

\* utils/cocktaildb: the image of an ingredient name
ingredientImageUrl(name) == <<"img", toLowerCase(name)>>

\* ------------------------------------------------------------------ Map
MapKeys(m) == {m[j][1] : j \in 1..Len(m)}
MapHas(m, k) == k \in MapKeys(m)
MapIndex(m, k) == CHOOSE j \in 1..Len(m) : m[j][1] = k
\* Map.get, 0 (falsy, like undefined) when the key is absent
MapGet(m, k) == IF MapHas(m, k) THEN m[MapIndex(m, k)][2] ELSE 0
\* Map.set: an existing key keeps its place, a new key goes last
MapSet(m, k, v) ==
  IF MapHas(m, k)
  THEN [m EXCEPT ![MapIndex(m, k)] = <<k, v>>]
  ELSE Append(m, <<k, v>>)
\* Map.delete
MapDelete(m, k) ==
  IF MapHas(m, k)
  THEN LET j == MapIndex(m, k)
       IN  SubSeq(m, 1, j - 1) \o SubSeq(m, j + 1, Len(m))
  ELSE m

\* ------------------------------------------------------------ Ingredient
Has(o, key) == key \in DOMAIN o
\* i.qty ?? 1
Qty(i) == IF Has(i, "qty") THEN i.qty ELSE DefaultQty
\* truthiness of i.wanted
Wanted(i) == IF Has(i, "wanted") THEN i.wanted ELSE FALSE

\* { ...i, key: value }
With(i, key, value) ==
  [k \in DOMAIN i \cup {key} |-> IF k = key THEN value ELSE i[k]]

\* Array.prototype.findIndex by id, 0 when absent (-1 in the source)
findIndex(list, id) ==
  IF \E j \in 1..Len(list) : list[j].id = id
  THEN CHOOSE j \in 1..Len(list) :
         list[j].id = id /\ \A h \in 1..(j - 1) : list[h].id # id
  ELSE 0

\* JSON.stringify of the list: each object becomes its key/value pairs
\* (a key whose value is undefined is not written)
JSONstringify(list) ==
  [j \in 1..Len(list) |-> {<<k, list[j][k]>> : k \in DOMAIN list[j]}]
\* JSON.parse of such a text
JSONparse(text) ==
  [j \in 1..Len(text) |->
     [k \in {kv[1] : kv \in text[j]} |->
        (CHOOSE kv \in text[j] : kv[1] = k)[2]]]

\* ------------------------------------------------------------ the world
\* what the pantry of the signed-in user may hold when the screen mounts
InitialPantries ==
  { <<>>,
    <<[id |-> 1, ingredient_name |-> "lime", quantity |-> 505]>>,
    <<[id |-> 1, ingredient_name |-> "lime", quantity |-> 505],
      [id |-> 2, ingredient_name |-> "Mint", quantity |-> 900]>> }

\* what an earlier session may have left under STORAGE_KEY
LegacyEntry ==
  [id |-> <<"t", 0>>, name |-> "Lime", category |-> "Other", owned |-> TRUE]
CachedEntry ==
  [id |-> <<"db", 1>>, name |-> "Mint", category |-> "Other", owned |-> TRUE,
   qty |-> 500, imageUrl |-> ingredientImageUrl("Mint")]
InitialCaches ==
  { null, <<JSONstringify(<<CachedEntry, LegacyEntry>>)>> }

VARIABLES
  isAuthenticated,      \* useAuth().isAuthenticated
  ingredients,          \* useState<Ingredient[]>
  loading,              \* useState(true)
  loadPc,               \* where the load effect's async function is
  backendIngredientMap, \* useRef<Map<string, number>>: local id -> backend id
  saveTimeouts,         \* pending timeouts of the cache effect
  syncTimeouts,         \* pending timeouts of the sync effect
  passes,               \* reconciliation passes in flight
  storage,              \* AsyncStorage under STORAGE_KEY
  pantry,               \* the server's rows of /users/me/pantry
  nextId,               \* the next id the server assigns
  background,           \* requests sent outside a pass, not yet answered
  activeTab,            \* useState<'cabinet' | 'shopping'>
  toast,                \* useState<{text, onUndo} | null>: the undo closure
  clock,                \* Date.now(), in the ids of added entries
  events,               \* the events of MaxEvents so far, by kind
  lastEvent,            \* the user event the last step handled, if it was one
  now,                  \* the time, in seconds
  toastTimerRef,        \* useRef<number | null>: the pending toast timeout
  toastTimeouts,        \* the pending timeouts of the toast effect
  query,                \* useState(''): the search bar's text, its characters
  sortAsc,              \* useState(true)
  categoryFilter,       \* useState<'All' | Category>('All')
  memo,                 \* the useMemo values cabinetItems and shoppingItems
  currentUserId,        \* lib/favorites: let currentUserId
  favStorage,           \* AsyncStorage under the favorites:<user> keys
  favCalls,             \* the calls of lib/favorites made so far
  drinksLoading,        \* DrinksProvider: useState(false), loading
  initialized,          \* DrinksProvider: useState(false)
  rendered,             \* the loading and initialized of the last render
  effectPending,        \* HomeScreen's fetch effect is due after a render
  fetches,              \* the refreshDrinks calls awaiting getRandomDrinks
  drinksEvents,         \* pulls to refresh and clearDrinks calls so far
  navigationKey,        \* useRootNavigationState()?.key is set
  isLoading,            \* useAuth().isLoading
  needsOnboarding,      \* useAuth().needsOnboarding
  segments,             \* useSegments()
  redirects             \* router.replace calls since the auth state changed

vars == <<isAuthenticated, ingredients, loading, loadPc, backendIngredientMap,
          saveTimeouts, syncTimeouts, passes, storage, pantry, nextId,
          background, activeTab, toast, clock, events, lastEvent,
          now, toastTimerRef, toastTimeouts,
          query, sortAsc, categoryFilter, memo,
          currentUserId, favStorage, favCalls,
          drinksLoading, initialized, rendered, effectPending, fetches,
          drinksEvents,
          navigationKey, isLoading, needsOnboarding, segments, redirects>>

\* the state of the toast's timer
timerVars == <<now, toastTimerRef, toastTimeouts>>
TimerStart == now = 0 /\ toastTimerRef = 0 /\ toastTimeouts = {}

\* what the steps of the cabinet screen's list leave alone
\* the search bar, the chips and the two lists they give
viewVars == <<query, sortAsc, categoryFilter, memo>>
ViewStart ==
  /\ query = <<>> /\ sortAsc = TRUE /\ categoryFilter = "All"
  /\ memo = [cabinetItems |-> <<>>, shoppingItems |-> <<>>]

\* lib/favorites: the user, the stored maps (the ids they hold) and the calls
favVars == <<currentUserId, favStorage, favCalls>>
FavKeys == {"favorites:anonymous", "favorites:u1", "favorites:u2"}
\* currentUserId null: no user
NoUser == "null"
FavStart ==
  /\ currentUserId = NoUser
  /\ favStorage = [k \in FavKeys |-> [kind |-> "null", ids |-> {}]]
  /\ favCalls = <<>>

\* DrinksProvider and HomeScreen, as they mount
drinksVars == <<drinksLoading, initialized, rendered, effectPending, fetches,
                drinksEvents>>
DrinksStart ==
  /\ drinksLoading = FALSE
  /\ initialized = FALSE
  /\ rendered = [loading |-> FALSE, initialized |-> FALSE]
  /\ effectPending = TRUE
  /\ fetches = <<>>
  /\ drinksEvents = 0

\* AuthGuard, before the navigation is ready
guardVars == <<navigationKey, isLoading, needsOnboarding, segments, redirects>>
GuardStart ==
  /\ navigationKey = FALSE
  /\ isLoading = TRUE
  /\ needsOnboarding = FALSE
  /\ segments = <<"(tabs)", "home">>
  /\ redirects = 0


otherVars == <<timerVars, viewVars, favVars, drinksVars, guardVars>>
OtherStart == TimerStart /\ ViewStart /\ FavStart /\ DrinksStart /\ GuardStart

userVars == <<activeTab, toast, clock>>

\* user mutations, failures and overlapping passes so far
Spent == events.mut + events.fail + events.overlap

\* the outcome of a request or a write: it succeeds, or fails while the
\* run's budget of events lasts
Outcome(ok) ==
  /\ ok \/ Spent < MaxEvents
  /\ events' = IF ok THEN events ELSE [events EXCEPT !.fail = @ + 1]

\* --------------------------------------------------------------- timers
\* clearTimeout(ref.current): the timeout the ref names, if still pending
clearTimeout(ts) == SelectSeq(ts, LAMBDA t : ~t.cur)
\* ref.current = setTimeout(...): the closure keeps the list it was made with
setTimeout(ts, list) ==
  Append([j \in 1..Len(ts) |-> [ts[j] EXCEPT !.cur = FALSE]],
         [snap |-> list, cur |-> TRUE])

\* variants of the two effects and of the mapping's recording, against which
\* the properties below are tried
saveEffect_WhileLoading(ts, ld, list) == setTimeout(clearTimeout(ts), list)
syncEffect_NoClear(ts, ld, auth, list) ==
  IF ld \/ ~auth THEN ts ELSE setTimeout(ts, list)
afterAdd_Never(m, localId, ok, responseId) == m
afterAdd_Always(m, localId, ok, responseId) == MapSet(m, localId, responseId)

\* the cache effect, run when `ingredients` or `loading` changed: the previous
\* run's cleanup, then the body
saveEffect(ts, ld, list) ==
  LET cleaned == clearTimeout(ts)
  IN  IF ld THEN cleaned ELSE setTimeout(clearTimeout(cleaned), list)

\* the sync effect, run when `ingredients`, `loading` or `isAuthenticated` changed
syncEffect(ts, ld, auth, list) ==
  LET cleaned == clearTimeout(ts)
  IN  IF ld \/ ~auth THEN cleaned ELSE setTimeout(clearTimeout(cleaned), list)

\* setIngredients(list) and/or setLoading(ld), and the effects of the commit
Commit(list, ld) ==
  /\ ingredients' = list
  /\ loading' = ld
  /\ saveTimeouts' = saveEffect(saveTimeouts, ld, list)
  /\ syncTimeouts' = syncEffect(syncTimeouts, ld, isAuthenticated, list)

\* ----------------------------------------------------------------- load
\* pantryItems.map(...) of the load effect
loadedIngredients(items) ==
  [j \in 1..Len(items) |->
     LET n == normalizeIngredient(items[j].ingredient_name)
     IN  [id |-> <<"db", items[j].id>>,
          name |-> n.displayName,
          category |-> "Other",
          owned |-> TRUE,
          qty |-> items[j].quantity,
          imageUrl |-> ingredientImageUrl(n.canonicalName)]]

RECURSIVE setAll(_, _, _)
\* backendIngredientMap.current.set(`db_${item.id}`, item.id) for items j..
setAll(m, items, j) ==
  IF j > Len(items) THEN m
  ELSE setAll(MapSet(m, <<"db", items[j].id>>, items[j].id), items, j + 1)

\* the fallback's map over the cached entries:
\* (i) => ({ ...i, qty: typeof i.qty === 'number' ? i.qty : 1 })
cachedIngredients(parsed) ==
  [j \in 1..Len(parsed) |-> With(parsed[j], "qty", Qty(parsed[j]))]

\* the effect starts: setLoading(true), then the GET when authenticated,
\* AsyncStorage.getItem ("fallback") otherwise
LoadStart ==
  /\ loadPc = "start"
  /\ loadPc' = IF isAuthenticated THEN "get" ELSE "fallback"
  /\ UNCHANGED <<isAuthenticated, ingredients, loading, backendIngredientMap,
                 saveTimeouts, syncTimeouts, passes, storage, pantry, nextId,
                 background, userVars, events>>

\* the GET of the load answers.  A non-empty list is converted and set; the
\* argument of AsyncStorage.setItem, JSON.stringify(mergedIngredients), names
\* an identifier that is declared nowhere: evaluating it throws a
\* ReferenceError before setItem is called, the inner catch logs it and the
\* function goes on to AsyncStorage.getItem, as it does ("fallback") after
\* a failed GET or an empty list.
LoadGet(ok) ==
  /\ loadPc = "get"
  /\ loadPc' = IF ok /\ Len(pantry) > 0 THEN "loaded" ELSE "fallback"
  /\ IF ok /\ Len(pantry) > 0
     THEN /\ backendIngredientMap' = setAll(backendIngredientMap, pantry, 1)
          /\ Commit(loadedIngredients(pantry), loading)
     ELSE UNCHANGED <<backendIngredientMap, ingredients, loading,
                      saveTimeouts, syncTimeouts>>
  /\ UNCHANGED <<isAuthenticated, passes, storage, pantry, nextId,
                 background, userVars>>
  /\ Outcome(ok)

\* a variant of the fallback that sets the parsed cache as the list
LoadGetItem_Cached(ok) ==
  /\ loadPc \in {"loaded", "fallback"}
  /\ loadPc' = "done"
  /\ IF storage # null /\ loadPc = "fallback"
     THEN Commit(cachedIngredients(JSONparse(storage[1])), FALSE)
     ELSE Commit(ingredients, FALSE)
  /\ UNCHANGED <<isAuthenticated, backendIngredientMap, passes, storage,
                 pantry, nextId,
                 background, userVars>>
  /\ Outcome(ok)

\* AsyncStorage.getItem answers.  With a cached text, JSON.parse succeeds and
\* the argument of setIngredients, existingIngredients.map(...), names an
\* identifier that is declared nowhere: a ReferenceError, logged by the outer
\* catch.  Either way the finally block ends the load.
LoadGetItem(ok) ==
  /\ loadPc \in {"loaded", "fallback"}
  /\ loadPc' = "done"
  /\ Commit(ingredients, FALSE)
  /\ UNCHANGED <<isAuthenticated, backendIngredientMap, passes, storage,
                 pantry, nextId,
                 background, userVars>>
  /\ Outcome(ok)

\* ---------------------------------------------------------- cache write
\* a pending timeout of the cache effect fires and writes its list
SaveFire(ok) ==
  \E j \in 1..Len(saveTimeouts) :
    /\ saveTimeouts' = SubSeq(saveTimeouts, 1, j - 1)
                         \o SubSeq(saveTimeouts, j + 1, Len(saveTimeouts))
    /\ storage' = IF ok THEN <<JSONstringify(saveTimeouts[j].snap)>> ELSE storage
    /\ UNCHANGED <<isAuthenticated, ingredients, loading, loadPc,
                   backendIngredientMap, syncTimeouts, passes, pantry, nextId,
                 background, userVars>>
  /\ Outcome(ok)

\* ------------------------------------------------- the pantry API (server)
\* POST /users/me/pantry: a new row with the next id
serverPost(rows, id, name, qty) ==
  Append(rows, [id |-> id, ingredient_name |-> name, quantity |-> qty])
\* PUT /users/me/pantry/{id}
serverPut(rows, id, qty) ==
  [j \in 1..Len(rows) |->
     IF rows[j].id = id THEN [rows[j] EXCEPT !.quantity = qty] ELSE rows[j]]
\* DELETE /users/me/pantry/{id}
serverDelete(rows, id) == SelectSeq(rows, LAMBDA r : r.id # id)

\* ------------------------------------------------------- reconciliation
NoReq == [op |-> "none", lid |-> <<"", 0>>, bid |-> 0, name |-> "", qty |-> 0]

abs(x) == IF x < 0 THEN -x ELSE x

\* ingredients.filter((i) => i.owned)
ownedIngredients(list) == SelectSeq(list, LAMBDA i : i.owned)

\* backendMap.get(normalizedName): pantryItems.forEach sets the entries in
\* order, so the last row of a name is the one kept; 0 when there is none
backendMapGet(items, normalizedName) ==
  LET S == {j \in 1..Len(items) :
              toLowerCase(normalizeIngredient(items[j].ingredient_name).displayName)
                = normalizedName}
  IN  IF S = {} THEN 0 ELSE items[CHOOSE j \in S : \A h \in S : h <= j].id

\* pantryItems.find((p) => p.id === backendId)
findItem(items, backendId) ==
  items[CHOOSE j \in 1..Len(items) :
          items[j].id = backendId /\ \A h \in 1..(j - 1) : items[h].id # backendId]

\* Math.abs((backendItem.quantity ?? 1) - (ingredient.qty ?? 1)) > 0.01
quantityDiffers(backendItem, ingredient) ==
  abs(backendItem.quantity - Qty(ingredient)) > Tolerance

\* a variant of the update that sends the default quantity
updateRequest_DefaultQty(m, ingredient) ==
  IF ingredient.owned /\ MapGet(m, ingredient.id) # 0
  THEN [NoReq EXCEPT !.op = "PUT", !.lid = ingredient.id,
                     !.bid = MapGet(m, ingredient.id), !.qty = DefaultQty]
  ELSE NoReq

\* syncIngredientToBackend(ingredient, 'update'): the PUT it sends, NoReq when
\* the local id has no backend id (or the ingredient is not owned)
updateRequest(m, ingredient) ==
  IF ingredient.owned /\ MapGet(m, ingredient.id) # 0
  THEN [NoReq EXCEPT !.op = "PUT", !.lid = ingredient.id,
                     !.bid = MapGet(m, ingredient.id), !.qty = Qty(ingredient)]
  ELSE NoReq

\* syncIngredientToBackend(ingredient, 'add'): the POST it sends
addRequest(ingredient) ==
  IF ingredient.owned
  THEN [NoReq EXCEPT !.op = "POST", !.lid = ingredient.id,
                     !.name = ingredient.name, !.qty = Qty(ingredient)]
  ELSE NoReq

\* after the POST: backendIngredientMap.current.set(ingredient.id, response.id)
afterAdd(m, localId, ok, responseId) ==
  IF ok THEN MapSet(m, localId, responseId) ELSE m

\* !ingredient || !ingredient.owned, for ingredients.find((i) => i.id === localId)
noLongerOwned(list, localId) ==
  LET j == findIndex(list, localId)
  IN  j = 0 \/ ~list[j].owned

RECURSIVE runRemove(_, _, _)
\* the loop "Remove ingredients that are no longer owned", from the iterator's
\* position `it` of the live Map up to its next await (a DELETE) or its end
runRemove(list, m, it) ==
  IF it > Len(m)
  THEN [pc |-> "finally", i |-> 0, it |-> it, req |-> NoReq, map |-> m]
  ELSE IF noLongerOwned(list, m[it][1])
       THEN [pc |-> "del", i |-> 0, it |-> it + 1,
             req |-> [NoReq EXCEPT !.op = "DELETE", !.lid = m[it][1],
                                   !.bid = m[it][2]],
             map |-> m]
       ELSE runRemove(list, m, it + 1)

RECURSIVE runOwned(_, _, _, _)
\* the loop "Sync owned ingredients" from its i-th entry up to its next await
\* of a request (a PUT or a POST), and into the removal loop when it ends
runOwned(list, items, m, i) ==
  LET owned == ownedIngredients(list)
  IN  IF i > Len(owned)
      THEN runRemove(list, m, 1)
      ELSE LET ingredient == owned[i]
               backendId == backendMapGet(items, toLowerCase(ingredient.name))
           IN  IF backendId # 0
               THEN IF /\ quantityDiffers(findItem(items, backendId), ingredient)
                       /\ updateRequest(m, ingredient) # NoReq
                    THEN [pc |-> "put", i |-> i, it |-> 0,
                          req |-> updateRequest(m, ingredient), map |-> m]
                    ELSE runOwned(list, items,
                                  MapSet(m, ingredient.id, backendId), i + 1)
               ELSE [pc |-> "post", i |-> i, it |-> 0,
                     req |-> addRequest(ingredient), map |-> m]

\* a deleted Map entry moves the live iterators behind it one place down
shiftIterators(ps, j) ==
  [q \in 1..Len(ps) |->
     IF ps[q].pc = "del" /\ ps[q].it > j
     THEN [ps[q] EXCEPT !.it = @ - 1] ELSE ps[q]]

\* pass p goes on as r says, with `call` (a finished request) logged
resume(ps, p, r, call) ==
  [ps EXCEPT ![p] = [@ EXCEPT !.pc = r.pc, !.i = r.i, !.it = r.it,
                              !.req = r.req,
                              !.calls = IF call.op = "none" THEN @
                                        ELSE Append(@, call)]]

logged(req, ok) ==
  [op |-> req.op, lid |-> req.lid, bid |-> req.bid, name |-> req.name,
   qty |-> req.qty, ok |-> ok]

\* a variant of SyncFire with an in-flight guard: no pass starts while another
\* is in flight
SyncFire_Guarded ==
  \E j \in 1..Len(syncTimeouts) :
    /\ Len(passes) < MaxPasses
    /\ passes = <<>>
    /\ saveTimeouts = <<>>
    /\ Len(passes) = 0 \/ Spent < MaxEvents
    /\ events' = IF Len(passes) = 0 THEN events
                  ELSE [events EXCEPT !.overlap = @ + 1]
    /\ syncTimeouts' = SubSeq(syncTimeouts, 1, j - 1)
                         \o SubSeq(syncTimeouts, j + 1, Len(syncTimeouts))
    /\ passes' = Append(passes,
                        [list |-> syncTimeouts[j].snap, pc |-> "fetch",
                         fetched |-> FALSE, items |-> <<>>, i |-> 0, it |-> 0,
                         req |-> NoReq, calls |-> <<>>])
    /\ UNCHANGED <<isAuthenticated, ingredients, loading, loadPc,
                   backendIngredientMap, saveTimeouts, storage, pantry, nextId,
                   background, userVars>>

\* the sync effect's timeout (1000 ms) fires: setSyncing(true) and the GET is
\* sent.  The two effects set their timeouts in the same commit, so the cache
\* effect's (250 ms) has fired before.
SyncFire ==
  \E j \in 1..Len(syncTimeouts) :
    /\ Len(passes) < MaxPasses
    /\ saveTimeouts = <<>>
    /\ Len(passes) = 0 \/ Spent < MaxEvents
    /\ events' = IF Len(passes) = 0 THEN events
                  ELSE [events EXCEPT !.overlap = @ + 1]
    /\ syncTimeouts' = SubSeq(syncTimeouts, 1, j - 1)
                         \o SubSeq(syncTimeouts, j + 1, Len(syncTimeouts))
    /\ passes' = Append(passes,
                        [list |-> syncTimeouts[j].snap, pc |-> "fetch",
                         fetched |-> FALSE, items |-> <<>>, i |-> 0, it |-> 0,
                         req |-> NoReq, calls |-> <<>>])
    /\ UNCHANGED <<isAuthenticated, ingredients, loading, loadPc,
                   backendIngredientMap, saveTimeouts, storage, pantry, nextId,
                   background, userVars>>

\* the GET of pass p answers
PassFetch(p, ok) ==
  /\ passes[p].pc = "fetch"
  /\ IF ok
     THEN LET r == runOwned(passes[p].list, pantry, backendIngredientMap, 1)
          IN  /\ passes' = resume([passes EXCEPT ![p].items = pantry,
                                                 ![p].fetched = TRUE],
                                  p, r, NoReq)
              /\ backendIngredientMap' = r.map
     ELSE /\ passes' = [passes EXCEPT ![p].pc = "finally"]
          /\ UNCHANGED backendIngredientMap
  /\ UNCHANGED <<isAuthenticated, ingredients, loading, loadPc, saveTimeouts,
                 syncTimeouts, storage, pantry, nextId,
                 background, userVars>>
  /\ Outcome(ok)

\* the PUT of pass p answers (a failure is caught inside
\* syncIngredientToBackend); then backendIngredientMap.set(ingredient.id,
\* backendId) and the loop goes on
PassPut(p, ok) ==
  /\ passes[p].pc = "put"
  /\ LET ps == passes[p]
         ingredient == ownedIngredients(ps.list)[ps.i]
         backendId == backendMapGet(ps.items, toLowerCase(ingredient.name))
         r == runOwned(ps.list, ps.items,
                       MapSet(backendIngredientMap, ingredient.id, backendId),
                       ps.i + 1)
     IN  /\ pantry' = IF ok THEN serverPut(pantry, ps.req.bid, ps.req.qty)
                      ELSE pantry
         /\ passes' = resume(passes, p, r, logged(ps.req, ok))
         /\ backendIngredientMap' = r.map
  /\ UNCHANGED <<isAuthenticated, ingredients, loading, loadPc, saveTimeouts,
                 syncTimeouts, storage, nextId,
                 background, userVars>>
  /\ Outcome(ok)

\* the POST of pass p answers
PassPost(p, ok) ==
  /\ passes[p].pc = "post"
  /\ LET ps == passes[p]
         r == runOwned(ps.list, ps.items,
                       afterAdd(backendIngredientMap, ps.req.lid, ok, nextId),
                       ps.i + 1)
     IN  /\ pantry' = IF ok
                      THEN serverPost(pantry, nextId, ps.req.name, ps.req.qty)
                      ELSE pantry
         /\ nextId' = IF ok THEN nextId + 1 ELSE nextId
         /\ passes' = resume(passes, p, r,
                             [logged(ps.req, ok) EXCEPT
                                !.bid = IF ok THEN nextId ELSE 0])
         /\ backendIngredientMap' = r.map
  /\ UNCHANGED <<isAuthenticated, ingredients, loading, loadPc, saveTimeouts,
                 syncTimeouts, storage,
                 background, userVars>>
  /\ Outcome(ok)

\* the DELETE of pass p answers: on success the mapping is dropped and the
\* loop goes on; a failure throws out of the loop into the catch
PassDel(p, ok) ==
  /\ passes[p].pc = "del"
  /\ LET ps == passes[p]
     IN  IF ok
         THEN LET j == IF MapHas(backendIngredientMap, ps.req.lid)
                       THEN MapIndex(backendIngredientMap, ps.req.lid)
                       ELSE Len(backendIngredientMap) + 1
                  m == MapDelete(backendIngredientMap, ps.req.lid)
                  shifted == shiftIterators(passes, j)
                  r == runRemove(ps.list, m, shifted[p].it)
              IN  /\ pantry' = serverDelete(pantry, ps.req.bid)
                  /\ passes' = resume(shifted, p, r, logged(ps.req, TRUE))
                  /\ backendIngredientMap' = r.map
         ELSE /\ passes' = resume(passes, p,
                                  [pc |-> "finally", i |-> 0, it |-> ps.it,
                                   req |-> NoReq, map |-> backendIngredientMap],
                                  logged(ps.req, FALSE))
              /\ UNCHANGED <<pantry, backendIngredientMap>>
  /\ UNCHANGED <<isAuthenticated, ingredients, loading, loadPc, saveTimeouts,
                 syncTimeouts, storage, nextId,
                 background, userVars>>
  /\ Outcome(ok)

\* the finally block of pass p: setSyncing(false); the pass is over
PassFinally(p) ==
  /\ passes[p].pc = "finally"
  /\ passes' = SubSeq(passes, 1, p - 1) \o SubSeq(passes, p + 1, Len(passes))
  /\ UNCHANGED <<isAuthenticated, ingredients, loading, loadPc,
                 backendIngredientMap, saveTimeouts, syncTimeouts, storage,
                 pantry, nextId,
                 background, userVars, events>>

\* ------------------------------------------------------- user mutations
NoToast ==
  [kind |-> "none", id |-> <<"", 0>>, idx |-> 0, removed |-> <<>>,
   name |-> "", qty |-> 0]

\* what the user may type or pick
NewNames == {" Mint", "lime", "  "}
CatalogNames == {"lime", "Mint"}
AdjustInputs == {-100, 504, 1200}
StepperValues == {500, 1000}
Queries == {"", "mi"}

\* a variant of trim that leaves the text as typed
trim_None(s) == s

\* String.prototype.trim on the typed names
trim(s) ==
  CASE s = " Mint" -> "Mint"
    [] s = "  " -> ""
    [] OTHER -> s

\* variants of the clamp and of the rounding, against which the properties
\* below are tried
round2_None(q) == q

\* Math.max(0, Math.min(1, q))
clamp(q) == IF q < 0 THEN 0 ELSE IF q > 1000 THEN 1000 ELSE q
\* Math.round(clamped * 100) / 100
round2(q) == ((q + 5) \div 10) * 10

\* the rows of the active tab: cabinetItems or shoppingItems
shown(i) == IF activeTab = "cabinet" THEN i.owned ELSE Wanted(i)
Row(j) == j \in 1..Len(ingredients) /\ shown(ingredients[j])

\* the record of a user event: the handler called and its arguments
NoEvent == [name |-> "none", id |-> <<"", 0>>, qty |-> 0, text |-> ""]
Handled(name, id) ==
  /\ lastEvent' = [NoEvent EXCEPT !.name = name, !.id = id]
  /\ UNCHANGED otherVars

\* a user mutation: setIngredients(list) and the commit's effects
Mutate(list) ==
  /\ Spent < MaxEvents
  /\ events' = [events EXCEPT !.mut = @ + 1]
  /\ Commit(list, loading)

\* prev.map((i) => (i.id === id ? { ...i, key: value } : i))
setField(list, id, key, value) ==
  [j \in 1..Len(list) |->
     IF list[j].id = id THEN With(list[j], key, value) ELSE list[j]]

toggleWantedList(list, id) ==
  [j \in 1..Len(list) |->
     IF list[j].id = id THEN With(list[j], "wanted", ~Wanted(list[j]))
     ELSE list[j]]
\* a variant that takes the entry out of the list instead of changing its flag
setWanted_Drop(list, id, v) == SelectSeq(list, LAMBDA i : i.id # id)
setWanted(list, id, v) == setField(list, id, "wanted", v)
setOwned(list, id, v) == setField(list, id, "owned", v)
setQty(list, id, q) == setField(list, id, "qty", q)
setName(list, id, n) == setField(list, id, "name", n)
purchased(i) == With(With(With(i, "wanted", FALSE), "owned", TRUE), "qty", DefaultQty)

toggleWanted(j) ==
  /\ activeTab = "shopping" /\ Row(j)
  /\ Mutate(toggleWantedList(ingredients, ingredients[j].id))
  /\ UNCHANGED <<isAuthenticated, loadPc, backendIngredientMap, passes, storage,
                 pantry, nextId, background, activeTab, toast, clock>>

addToShopping(j) ==
  /\ activeTab = "cabinet" /\ Row(j)
  /\ Mutate(setWanted(ingredients, ingredients[j].id, TRUE))
  /\ UNCHANGED <<isAuthenticated, loadPc, backendIngredientMap, passes, storage,
                 pantry, nextId, background, activeTab, toast, clock>>

\* [...prev.slice(0, idx), ...prev.slice(idx + 1)], idx counted from 1 here
removeAt(list, idx) == SubSeq(list, 1, idx - 1) \o SubSeq(list, idx + 1, Len(list))
\* a variant of the undo's insertion that puts the entry last
insertAt_Last(list, idx, removed) == Append(list, removed)

\* [...prev2.slice(0, idx), removed, ...prev2.slice(idx)]
insertAt(list, idx, removed) ==
  LET k == IF idx - 1 > Len(list) THEN Len(list) ELSE idx - 1
  IN  SubSeq(list, 1, k) \o <<removed>> \o SubSeq(list, k + 1, Len(list))

deleteIngredient(j) ==
  /\ Row(j)
  /\ LET idx == findIndex(ingredients, ingredients[j].id)
     IN  /\ Mutate(removeAt(ingredients, idx))
         /\ toast' = [NoToast EXCEPT !.kind = "delete", !.idx = idx,
                                     !.id = ingredients[idx].id,
                                     !.removed = <<ingredients[idx]>>]
  /\ UNCHANGED <<isAuthenticated, loadPc, backendIngredientMap, passes, storage,
                 pantry, nextId, background, activeTab, clock>>

removeFromCabinet(j) ==
  /\ activeTab = "cabinet" /\ Row(j)
  /\ Mutate(setOwned(ingredients, ingredients[j].id, FALSE))
  /\ toast' = [NoToast EXCEPT !.kind = "cabinet", !.id = ingredients[j].id]
  /\ UNCHANGED <<isAuthenticated, loadPc, backendIngredientMap, passes, storage,
                 pantry, nextId, background, activeTab, clock>>

removeFromShopping(j) ==
  /\ activeTab = "shopping" /\ Row(j)
  /\ Mutate(setWanted(ingredients, ingredients[j].id, FALSE))
  /\ toast' = [NoToast EXCEPT !.kind = "shopping", !.id = ingredients[j].id]
  /\ UNCHANGED <<isAuthenticated, loadPc, backendIngredientMap, passes, storage,
                 pantry, nextId, background, activeTab, clock>>

\* adjustQty: the list is updated and, for an owned entry of a signed-in
\* user, syncIngredientToBackend(ingredient, 'update') is started, not awaited
adjustQty(j, nextQty) ==
  /\ activeTab = "cabinet" /\ Row(j)
  /\ LET id == ingredients[j].id
         updated == setQty(ingredients, id, round2(clamp(nextQty)))
         ingredient == updated[findIndex(updated, id)]
         req == IF isAuthenticated /\ ingredient.owned
                THEN updateRequest(backendIngredientMap, ingredient)
                ELSE NoReq
     IN  /\ Mutate(updated)
         /\ background' = IF req = NoReq THEN background
                          ELSE Append(background, req)
  /\ UNCHANGED <<isAuthenticated, loadPc, backendIngredientMap, passes, storage,
                 pantry, nextId, activeTab, toast, clock>>

\* markPurchasedSingle: the undo closure keeps `it`, the entry as it was
markPurchasedSingle(j) ==
  /\ activeTab = "shopping" /\ Row(j)
  /\ Mutate([h \in 1..Len(ingredients) |->
               IF ingredients[h].id = ingredients[j].id
               THEN purchased(ingredients[h]) ELSE ingredients[h]])
  /\ toast' = [NoToast EXCEPT !.kind = "purchased", !.id = ingredients[j].id,
                              !.removed = <<ingredients[j]>>,
                              !.qty = Qty(ingredients[j])]
  /\ UNCHANGED <<isAuthenticated, loadPc, backendIngredientMap, passes, storage,
                 pantry, nextId, background, activeTab, clock>>

\* String.prototype.includes on the names and the queries of the model
includes(s, q) == q = "" \/ (q = "mi" /\ s = "mint")

\* shoppingItems: the wanted entries the search bar's query lets through (the
\* category chips offer the categories of the list, here all 'Other')
shoppingItems(list, typed) ==
  SelectSeq(list, LAMBDA i : Wanted(i) /\ includes(toLowerCase(i.name), typed))

\* markPurchased, the search bar holding `query`: it returns at once (and the
\* button is disabled) when shoppingItems is empty
markPurchased(typed) ==
  /\ activeTab = "shopping"
  /\ IF shoppingItems(ingredients, typed) = <<>>
     THEN UNCHANGED <<ingredients, loading, saveTimeouts, syncTimeouts, events>>
     ELSE Mutate([j \in 1..Len(ingredients) |->
                    IF Wanted(ingredients[j]) THEN purchased(ingredients[j])
                    ELSE ingredients[j]])
  /\ UNCHANGED <<isAuthenticated, loadPc, backendIngredientMap, passes, storage,
                 pantry, nextId, background, activeTab, toast, clock>>

\* confirmRename with renamingItem = the j-th entry and the typed newName
\* (an empty or unchanged name changes nothing of this state)
confirmRename(j, newName) ==
  /\ Row(j)
  /\ LET renamingItem == ingredients[j]
         trimmed == trim(newName)
         n == normalizeIngredient(trimmed)
     IN  /\ trimmed # ""
         /\ trimmed # renamingItem.name
         /\ Mutate(setField(setName(ingredients, renamingItem.id,
                                     n.displayName),
                             renamingItem.id, "imageUrl",
                             ingredientImageUrl(n.canonicalName)))
         /\ toast' = [NoToast EXCEPT !.kind = "rename", !.id = renamingItem.id,
                                     !.name = renamingItem.name]
  /\ UNCHANGED <<isAuthenticated, loadPc, backendIngredientMap, passes, storage,
                 pantry, nextId, background, activeTab, clock>>

\* confirmRename returning early: the typed name is empty or the item's own
\* (only the modal's state is reset)
confirmRenameIgnored(j, newName) ==
  /\ Row(j)
  /\ LET renamingItem == ingredients[j]
         trimmed == trim(newName)
     IN  trimmed = "" \/ trimmed = renamingItem.name
  /\ UNCHANGED <<isAuthenticated, ingredients, loading, loadPc,
                 backendIngredientMap, saveTimeouts, syncTimeouts, passes,
                 storage, pantry, nextId, background, activeTab, toast, clock,
                 events>>

\* a variant of the press that marks every new entry owned
addFromCatalog_Owned(itemName, qty) ==
  /\ clock <= MaxClock
  /\ LET n == normalizeIngredient(itemName)
         newIngredient ==
           [id |-> <<"t", clock>>,
            name |-> n.displayName,
            category |-> "Other",
            owned |-> TRUE,
            wanted |-> (activeTab = "shopping"),
            imageUrl |-> ingredientImageUrl(n.canonicalName),
            qty |-> clamp(qty)]
     IN  /\ Mutate(Append(ingredients, newIngredient))
         /\ background' = IF activeTab = "cabinet" /\ isAuthenticated
                          THEN Append(background, addRequest(newIngredient))
                          ELSE background
  /\ clock' = clock + 1
  /\ UNCHANGED <<isAuthenticated, loadPc, backendIngredientMap, passes, storage,
                 pantry, nextId, activeTab, toast>>

\* the press on a catalog row in the Add modal, the stepper showing qty
\* (impactScore, a Math.random() that nothing reads, is left out)
addFromCatalog(itemName, qty) ==
  /\ clock <= MaxClock
  /\ LET n == normalizeIngredient(itemName)
         newIngredient ==
           [id |-> <<"t", clock>>,
            name |-> n.displayName,
            category |-> "Other",
            owned |-> (activeTab = "cabinet"),
            wanted |-> (activeTab = "shopping"),
            imageUrl |-> ingredientImageUrl(n.canonicalName),
            qty |-> clamp(qty)]
     IN  /\ Mutate(Append(ingredients, newIngredient))
         /\ background' = IF activeTab = "cabinet" /\ isAuthenticated
                          THEN Append(background, addRequest(newIngredient))
                          ELSE background
  /\ clock' = clock + 1
  /\ UNCHANGED <<isAuthenticated, loadPc, backendIngredientMap, passes, storage,
                 pantry, nextId, activeTab, toast>>

\* the list the toast's onUndo closure sets
undone(list, t) ==
  CASE t.kind = "delete" ->
         IF findIndex(list, t.id) # 0 THEN list
         ELSE insertAt(list, t.idx, t.removed[1])
    [] t.kind = "cabinet" -> setOwned(list, t.id, TRUE)
    [] t.kind = "shopping" -> setWanted(list, t.id, TRUE)
    [] t.kind = "purchased" ->
         setQty(setOwned(setWanted(list, t.id, TRUE), t.id, FALSE),
                t.id, t.qty)
    [] t.kind = "rename" -> setName(list, t.id, t.name)

\* the press on the toast's Undo (the undo of a delete returns prev2 itself
\* when the id is there: no new list, no effect runs)
Undo ==
  /\ toast.kind # "none"
  /\ IF toast.kind = "delete" /\ findIndex(ingredients, toast.id) # 0
     THEN UNCHANGED <<ingredients, loading, saveTimeouts, syncTimeouts>>
     ELSE Commit(undone(ingredients, toast), loading)
  /\ toast' = NoToast
  /\ UNCHANGED <<isAuthenticated, loadPc, backendIngredientMap, passes, storage,
                 pantry, nextId, background, activeTab, clock, events>>

\* the toast's 5 s timeout: setToast(null)
ToastExpire ==
  /\ toast.kind # "none"
  /\ toast' = NoToast
  /\ UNCHANGED <<isAuthenticated, ingredients, loading, loadPc,
                 backendIngredientMap, saveTimeouts, syncTimeouts, passes,
                 storage, pantry, nextId, background, activeTab, clock, events>>

setActiveTab(tab) ==
  /\ activeTab # tab
  /\ Spent < MaxEvents
  /\ activeTab' = tab
  /\ UNCHANGED <<isAuthenticated, ingredients, loading, loadPc,
                 backendIngredientMap, saveTimeouts, syncTimeouts, passes,
                 storage, pantry, nextId, background, toast, clock, events>>

\* ------------------------------------------- requests outside a pass
dropAt(q, b) == SubSeq(q, 1, b - 1) \o SubSeq(q, b + 1, Len(q))

\* the PUT of adjustQty answers (a failure is logged)
BackgroundPut(b, ok) ==
  /\ background[b].op = "PUT"
  /\ background' = dropAt(background, b)
  /\ pantry' = IF ok THEN serverPut(pantry, background[b].bid, background[b].qty)
               ELSE pantry
  /\ UNCHANGED <<isAuthenticated, ingredients, loading, loadPc,
                 backendIngredientMap, saveTimeouts, syncTimeouts, passes,
                 storage, nextId, userVars>>
  /\ Outcome(ok)

\* the POST of addFromCatalog answers
BackgroundPost(b, ok) ==
  /\ background[b].op = "POST"
  /\ background' = dropAt(background, b)
  /\ pantry' = IF ok THEN serverPost(pantry, nextId, background[b].name,
                                     background[b].qty)
               ELSE pantry
  /\ nextId' = IF ok THEN nextId + 1 ELSE nextId
  /\ backendIngredientMap' =
       afterAdd(backendIngredientMap, background[b].lid, ok, nextId)
  /\ UNCHANGED <<isAuthenticated, ingredients, loading, loadPc, saveTimeouts,
                 syncTimeouts, passes, storage, userVars>>
  /\ Outcome(ok)

Init ==
  /\ isAuthenticated \in BOOLEAN
  /\ ingredients = <<>>
  /\ loading = TRUE
  /\ loadPc = "start"
  /\ backendIngredientMap = <<>>
  /\ saveTimeouts = <<>>
  /\ syncTimeouts = <<>>
  /\ passes = <<>>
  /\ storage \in InitialCaches
  /\ pantry \in InitialPantries
  /\ nextId = 3
  /\ background = <<>>
  /\ activeTab = "cabinet"
  /\ toast = NoToast
  /\ clock = 1
  /\ events = [mut |-> 0, fail |-> 0, overlap |-> 0]
  /\ lastEvent = NoEvent
  /\ OtherStart

Next ==
  \/ /\ lastEvent' = NoEvent /\ UNCHANGED otherVars
     /\ \/ LoadStart
        \/ \E ok \in BOOLEAN : LoadGet(ok)
        \/ \E ok \in BOOLEAN : LoadGetItem(ok)
        \/ \E ok \in BOOLEAN : SaveFire(ok)
        \/ SyncFire
        \/ \E p \in 1..Len(passes), ok \in BOOLEAN : PassFetch(p, ok)
        \/ \E p \in 1..Len(passes), ok \in BOOLEAN : PassPut(p, ok)
        \/ \E p \in 1..Len(passes), ok \in BOOLEAN : PassPost(p, ok)
        \/ \E p \in 1..Len(passes), ok \in BOOLEAN : PassDel(p, ok)
        \/ \E p \in 1..Len(passes) : PassFinally(p)
        \/ ToastExpire
        \/ \E b \in 1..Len(background), ok \in BOOLEAN : BackgroundPut(b, ok)
        \/ \E b \in 1..Len(background), ok \in BOOLEAN : BackgroundPost(b, ok)
  \/ \E j \in 1..Len(ingredients) :
       toggleWanted(j) /\ Handled("toggleWanted", ingredients[j].id)
  \/ \E j \in 1..Len(ingredients) :
       addToShopping(j) /\ Handled("addToShopping", ingredients[j].id)
  \/ \E j \in 1..Len(ingredients) :
       deleteIngredient(j) /\ Handled("deleteIngredient", ingredients[j].id)
  \/ \E j \in 1..Len(ingredients) :
       removeFromCabinet(j) /\ Handled("removeFromCabinet", ingredients[j].id)
  \/ \E j \in 1..Len(ingredients) :
       removeFromShopping(j) /\ Handled("removeFromShopping", ingredients[j].id)
  \/ \E j \in 1..Len(ingredients), q \in AdjustInputs :
       /\ adjustQty(j, q)
       /\ UNCHANGED otherVars
       /\ lastEvent' = [NoEvent EXCEPT !.name = "adjustQty",
                                       !.id = ingredients[j].id, !.qty = q]
  \/ \E j \in 1..Len(ingredients) :
       markPurchasedSingle(j)
         /\ Handled("markPurchasedSingle", ingredients[j].id)
  \/ \E typed \in Queries :
       /\ markPurchased(typed)
       /\ UNCHANGED otherVars
       /\ lastEvent' = [NoEvent EXCEPT !.name = "markPurchased",
                                       !.text = typed]
  \/ \E j \in 1..Len(ingredients), n \in NewNames :
       /\ confirmRename(j, n)
       /\ UNCHANGED otherVars
       /\ lastEvent' = [NoEvent EXCEPT !.name = "confirmRename",
                                       !.id = ingredients[j].id, !.text = n]
  \/ \E j \in 1..Len(ingredients), n \in NewNames :
       /\ confirmRenameIgnored(j, n)
       /\ UNCHANGED otherVars
       /\ lastEvent' = [NoEvent EXCEPT !.name = "confirmRename",
                                       !.id = ingredients[j].id, !.text = n]
  \/ \E n \in CatalogNames, q \in StepperValues :
       /\ addFromCatalog(n, q)
       /\ UNCHANGED otherVars
       /\ lastEvent' = [NoEvent EXCEPT !.name = "addFromCatalog",
                                       !.id = <<"t", clock>>,
                                       !.qty = q, !.text = n]
  \/ Undo /\ Handled("undo", toast.id)
  \/ \E tab \in {"cabinet", "shopping"} :
       setActiveTab(tab) /\ Handled("setActiveTab", NoEvent.id)

Spec == Init /\ [][Next]_vars
\* ================================================================ claims
\* no timeout pending, no pass and no request in flight, the load over
Quiescent ==
  /\ loadPc = "done"
  /\ saveTimeouts = <<>> /\ syncTimeouts = <<>>
  /\ passes = <<>> /\ background = <<>>

\* the lower-cased normalized name of a pantry row
RowName(r) == toLowerCase(normalizeIngredient(r.ingredient_name).displayName)
PantryNames == {RowName(pantry[j]) : j \in 1..Len(pantry)}

\* the finished calls of pass ps with method op for the local id lid
CallsFor(ps, op, lid) ==
  {c \in 1..Len(ps.calls) : ps.calls[c].op = op /\ ps.calls[c].lid = lid}

\* pass ps has fetched the pantry and is through its loop over the owned entries
PastOwnedLoop(ps) == ps.fetched /\ ps.pc \in {"del", "finally"}

\* pass p takes a step (and no pass starts or ends) in this transition
Stepped(p) ==
  /\ Len(passes') = Len(passes)
  /\ \/ passes[p].pc = "fetch" /\ passes'[p].pc # "fetch"
     \/ Len(passes'[p].calls) > Len(passes[p].calls)

\* C1: in a pass, every owned entry whose name matches a fetched row whose
\* quantity differs from the entry's by more than 0.01 gets exactly one update
\* call, a PUT of the local quantity to that row's id, and no create call,
\* whether or not the entry had a mapping when the pass started.
C1_OneUpdatePerMatch ==
  \A p \in 1..Len(passes) :
    PastOwnedLoop(passes[p]) =>
      \A k \in 1..Len(ownedIngredients(passes[p].list)) :
        LET e == ownedIngredients(passes[p].list)[k]
            rowId == backendMapGet(passes[p].items, toLowerCase(e.name))
        IN  (rowId # 0 /\ quantityDiffers(findItem(passes[p].items, rowId), e))
            => /\ Cardinality(CallsFor(passes[p], "PUT", e.id)) = 1
               /\ \A c \in CallsFor(passes[p], "PUT", e.id) :
                    /\ passes[p].calls[c].bid = rowId
                    /\ passes[p].calls[c].qty = Qty(e)
               /\ CallsFor(passes[p], "POST", e.id) = {}

\* the calls a pass has made for the owned entries no fetched row matches
C2_CreateCalls ==
  \A p \in 1..Len(passes) :
    PastOwnedLoop(passes[p]) =>
      \A k \in 1..Len(ownedIngredients(passes[p].list)) :
        LET e == ownedIngredients(passes[p].list)[k]
        IN  backendMapGet(passes[p].items, toLowerCase(e.name)) = 0
            => /\ Cardinality(CallsFor(passes[p], "POST", e.id)) = 1
               /\ \A c \in CallsFor(passes[p], "POST", e.id) :
                    /\ passes[p].calls[c].name = e.name
                    /\ passes[p].calls[c].qty = Qty(e)
               /\ CallsFor(passes[p], "PUT", e.id) = {}
               /\ CallsFor(passes[p], "DELETE", e.id) = {}

\* a step in which the POST of a pass succeeds
C2_MappingRecorded ==
  \A p \in 1..Len(passes) :
    (Stepped(p) /\ passes[p].pc = "post" /\ events' = events)
    => /\ MapGet(backendIngredientMap', passes[p].req.lid) = nextId
       /\ \E j \in 1..Len(pantry') :
            /\ pantry'[j].id = nextId
            /\ pantry'[j].ingredient_name = passes[p].req.name
\* C2: in a pass, every owned entry whose name no fetched row has gets exactly
\* one create call, a POST of its name and quantity, and no update or delete
\* call; and when the POST succeeds the mapping from the entry's local id to
\* the id of the response is recorded.
C2_Create == []C2_CreateCalls /\ [][C2_MappingRecorded]_vars
C2_Witness ==
  \E p \in 1..Len(passes) :
    /\ passes[p].pc = "finally"
    /\ \E c \in 1..Len(passes[p].calls) :
         /\ passes[p].calls[c].op = "POST" /\ passes[p].calls[c].ok
         /\ MapGet(backendIngredientMap, passes[p].calls[c].lid)
              = passes[p].calls[c].bid

\* what a step of a pass may do about a mapping
C3_DeleteOnlyStale ==
  \A p \in 1..Len(passes) :
    Stepped(p) =>
      /\ passes'[p].pc = "del"
           => noLongerOwned(ingredients', passes'[p].req.lid)
      /\ (/\ passes'[p].pc = "finally" /\ passes'[p].fetched
          /\ \A c \in 1..Len(passes'[p].calls) : passes'[p].calls[c].ok)
           => \A k \in MapKeys(backendIngredientMap') :
                ~noLongerOwned(passes'[p].list, k)
\* C3: a pass issues a delete call for every mapping whose local entry is no
\* longer in the in-memory list or is not owned, and drops that mapping; a
\* mapping whose local entry is in the list and owned gets no delete call and
\* is kept.
C3_Delete == [][C3_DeleteOnlyStale]_vars

\* C4: after an owned entry mapped to a remote row is renamed to a name no
\* remote row has, and the passes that follow have run (every call
\* succeeding), the pantry has a row of the new name and no row of the old.
C4_RenameReconciled ==
  LET j == findIndex(ingredients, toast.id)
      e == ingredients[j]
  IN  (/\ Quiescent /\ isAuthenticated
       /\ events = [mut |-> 1, fail |-> 0, overlap |-> 0]
       /\ toast.kind = "rename" /\ j # 0
       /\ e.owned /\ e.id[1] = "db"
       /\ toLowerCase(e.name) # toLowerCase(toast.name)
       /\ \A h \in 1..Len(ingredients) :
            h # j => ingredients[h].name \notin {e.name, toast.name})
      => /\ toLowerCase(e.name) \in PantryNames
         /\ toLowerCase(toast.name) \notin PantryNames

\* the pantry and the owned entries agree on names and quantities
Converged ==
  /\ \A j \in 1..Len(pantry) :
       \E h \in 1..Len(ingredients) :
         /\ ingredients[h].owned
         /\ toLowerCase(ingredients[h].name) = RowName(pantry[j])
         /\ abs(pantry[j].quantity - Qty(ingredients[h])) <= Tolerance
  /\ \A h \in 1..Len(ingredients) :
       ingredients[h].owned =>
         \E j \in 1..Len(pantry) :
           /\ toLowerCase(ingredients[h].name) = RowName(pantry[j])
           /\ abs(pantry[j].quantity - Qty(ingredients[h])) <= Tolerance
\* C5: signed in, with every call succeeding, once the mutations have stopped
\* and the passes have run, the pantry's names are the owned entries' names
\* and the quantities agree within 0.01.
C5_Convergence ==
  (Quiescent /\ isAuthenticated /\ events.fail = 0) => Converged

\* the step that ends a load whose GET returned rows
C6_LoadStep ==
  (loadPc = "loaded" /\ loadPc' = "done" /\ events' = events)
  => /\ ingredients' = loadedIngredients(pantry)
     /\ \A j \in 1..Len(pantry) :
          MapGet(backendIngredientMap', <<"db", pantry[j].id>>) = pantry[j].id
     /\ storage' = <<JSONstringify(ingredients')>>
\* C6: when a load that fetched a non-empty pantry finishes, the list is one
\* entry per row (id db_<id>, owned, the row's quantity), each db_<id> is
\* mapped to its id, and the cache holds that list.
C6_AuthoritativeLoad == [][C6_LoadStep]_vars

\* the step that ends a load that fell back to a cache holding a list
C7_LoadStep ==
  (loadPc = "fallback" /\ loadPc' = "done" /\ storage # null
     /\ events' = events)
  => /\ ingredients' = cachedIngredients(JSONparse(storage[1]))
     /\ loading' = FALSE
\* C7: when the load falls back to a cache that holds a list, the in-memory
\* list becomes the cached list with quantity 1 given to the entries that have
\* none, and loading ends false.
C7_CacheFallback == [][C7_LoadStep]_vars

\* a step in which a request fails
C8_FailureStep ==
  events'.fail > events.fail
  => /\ ingredients' = ingredients
     /\ MapKeys(backendIngredientMap) \subseteq MapKeys(backendIngredientMap')
     /\ \A k \in MapKeys(backendIngredientMap') :
          MapGet(backendIngredientMap', k) # MapGet(backendIngredientMap, k)
          => \E p \in 1..Len(passes) :
               /\ passes[p].fetched
               /\ \E h \in 1..Len(passes[p].list) :
                    /\ passes[p].list[h].id = k /\ passes[p].list[h].owned
                    /\ MapGet(backendIngredientMap', k) # 0
                    /\ MapGet(backendIngredientMap', k)
                         = backendMapGet(passes[p].items,
                                         toLowerCase(passes[p].list[h].name))
\* C8: a remote call that fails leaves the in-memory list as it was, drops no
\* mapping and records none from the failed call: a mapping that differs after
\* the failure names a row that a pass fetched for an owned entry of that name.
C8_NoRollback == [][C8_FailureStep]_vars
C8_Witness ==
  /\ events.fail > 0 /\ ingredients # <<>>
  /\ \E p \in 1..Len(passes) : \E c \in 1..Len(passes[p].calls) :
       /\ ~passes[p].calls[c].ok
       /\ passes[p].calls[c].op = "POST"
       /\ ~MapHas(backendIngredientMap, passes[p].calls[c].lid)

\* a change of the list and a cache write, as steps
C9_Step ==
  /\ (~loading /\ ~loading' /\ ingredients' # ingredients)
     => \E j \in 1..Len(saveTimeouts') :
          saveTimeouts'[j].cur /\ saveTimeouts'[j].snap = ingredients'
  /\ (/\ ingredients' = ingredients /\ loading' = loading
      /\ Len(saveTimeouts') < Len(saveTimeouts) /\ events' = events)
     => /\ storage' = <<JSONstringify(ingredients)>>
        /\ JSONparse(storage'[1]) = ingredients

\* no cache write is pending during the load
C9_NoneWhileLoading == loading => saveTimeouts = <<>>
\* C9: after the load, every change of the list leaves a pending cache write
\* of the new list; a write that fires with the list unchanged and succeeds
\* leaves the cache holding exactly the list; and no cache write is pending
\* while loading is true.
C9_Persistence == [][C9_Step]_vars /\ []C9_NoneWhileLoading
C9_Witness ==
  /\ loadPc = "done" /\ events.mut >= 1 /\ ingredients # <<>>
  /\ saveTimeouts = <<>>
  /\ storage = <<JSONstringify(ingredients)>>

\* the pending timeouts of the two timers
C10_OnePending ==
  /\ Len(saveTimeouts) <= 1 /\ Len(syncTimeouts) <= 1
  /\ \A j \in 1..Len(saveTimeouts) :
       saveTimeouts[j].cur /\ saveTimeouts[j].snap = ingredients
  /\ \A j \in 1..Len(syncTimeouts) :
       syncTimeouts[j].cur /\ syncTimeouts[j].snap = ingredients
\* a mutation, the start of a pass and a cache write, as steps
C10_Step ==
  /\ (~loading' /\ ingredients' # ingredients)
     => /\ Len(saveTimeouts') = 1 /\ saveTimeouts'[1].snap = ingredients'
        /\ isAuthenticated
             => Len(syncTimeouts') = 1 /\ syncTimeouts'[1].snap = ingredients'
  /\ Len(passes') > Len(passes)
     => /\ passes'[Len(passes')].list = ingredients
        /\ syncTimeouts' = <<>>
  /\ (storage' # storage) => saveTimeouts' = <<>>
\* C10: each timer has at most one pending timeout, and it holds the current
\* list; a mutation before it fires leaves exactly one, for the new list; the
\* write and the pass that then start are the only ones and use that list.
C10_Coalescing == []C10_OnePending /\ [][C10_Step]_vars
C10_Witness ==
  /\ isAuthenticated /\ events = [mut |-> 2, fail |-> 0, overlap |-> 0]
  /\ Len(saveTimeouts) = 1 /\ saveTimeouts[1].snap = ingredients
  /\ Len(syncTimeouts) = 1 /\ syncTimeouts[1].snap = ingredients
  /\ storage \in InitialCaches /\ passes = <<>>
\* C11: there is no in-flight guard: a pending sync timeout can fire and start
\* a pass whether or not another pass is in flight (within MaxPasses and
\* MaxEvents), so two passes over the same mapping are in flight at once.
C11_NoInFlightGuard ==
  (/\ syncTimeouts # <<>> /\ saveTimeouts = <<>>
   /\ Len(passes) < MaxPasses
   /\ passes = <<>> \/ Spent < MaxEvents)
  => ENABLED SyncFire
C11_Witness ==
  /\ Len(passes) = 2
  /\ passes[1].list # passes[2].list
  /\ passes[1].pc = "fetch"
  /\ passes[2].pc \in {"put", "post", "del"}
  /\ events.mut >= 1
\* the multiple of 0.01 nearest to q clamped to [0, 1]
Hundredths == {10 * k : k \in 0..100}
Rounded(q) ==
  LET c == IF q < 0 THEN 0 ELSE IF q > 1000 THEN 1000 ELSE q
  IN  CHOOSE r \in Hundredths : r - 5 <= c /\ c < r + 5

\* the step of adjustQty(id, q)
C12_Step ==
  lastEvent'.name = "adjustQty"
  => LET id == lastEvent'.id
         r == Rounded(lastEvent'.qty)
     IN  /\ Len(ingredients') = Len(ingredients)
         /\ \A h \in 1..Len(ingredients) :
              IF ingredients[h].id = id
              THEN /\ ingredients'[h].qty = r
                   /\ DOMAIN ingredients'[h] = DOMAIN ingredients[h] \cup {"qty"}
                   /\ \A k \in DOMAIN ingredients[h] \ {"qty"} :
                        ingredients'[h][k] = ingredients[h][k]
                   /\ round2(clamp(ingredients'[h].qty)) = ingredients'[h].qty
              ELSE ingredients'[h] = ingredients[h]
         /\ setQty(ingredients', id, round2(clamp(r))) = ingredients'

\* C12: adjustQty(id, q), for q below 0, within [0, 1] and above 1, leaves
\* entry id with quantity round(clamp(q, 0, 1) * 100) / 100, changes no other
\* field of it and no other entry, and applying it again with the stored
\* value changes nothing.
C12_AdjustQuantity == [][C12_Step]_vars
C12_Witness ==
  /\ lastEvent.name = "adjustQty" /\ lastEvent.qty = 504
  /\ Len(ingredients) >= 2
  /\ \E h \in 1..Len(ingredients) :
       ingredients[h].id = lastEvent.id /\ ingredients[h].qty = 500
\* a quantity within [0, 1] that is a multiple of 0.01
WellFormedQty(q) == 0 <= q /\ q <= 1000 /\ q % 10 = 0
AllWellFormed(list) ==
  \A h \in 1..Len(list) : Has(list[h], "qty") => WellFormedQty(list[h].qty)

\* C13: in every reachable state every entry of the in-memory list, and of
\* the list written to the cache, that has a quantity has it within [0, 1]
\* and equal to a multiple of 0.01.
C13_QuantityInvariant ==
  /\ AllWellFormed(ingredients)
  /\ storage # null => AllWellFormed(JSONparse(storage[1]))
\* the entry of the list with the given id
Entry(list, id) == list[findIndex(list, id)]

\* the request an adjustQty step has sent, if it sent one
C14_Sent(expected) ==
  LET e == Entry(ingredients', lastEvent'.id)
  IN  IF expected
      THEN background' =
             Append(background,
                    [NoReq EXCEPT !.op = "PUT", !.lid = e.id,
                                  !.bid = MapGet(backendIngredientMap, e.id),
                                  !.qty = e.qty])
      ELSE background' = background
\* the answer to a background PUT that failed
C14_FailedPut ==
  (/\ Len(background') < Len(background) /\ events'.fail > events.fail
   /\ pantry' = pantry /\ nextId' = nextId)
  => ingredients' = ingredients /\ backendIngredientMap' = backendIngredientMap

\* C14 as stated: adjustQty sends a background PUT, to the remote id mapped to
\* the entry and with the new quantity, if and only if the user is signed in
\* and the entry is owned; a failed call changes neither list nor mapping.
C14_Step ==
  /\ lastEvent'.name = "adjustQty"
     => C14_Sent(isAuthenticated /\ Entry(ingredients', lastEvent'.id).owned)
  /\ C14_FailedPut
C14_AdjustRemote == [][C14_Step]_vars

\* C14 amended: adjustQty sends a background PUT, to the remote id mapped to
\* the entry and with the new quantity, if and only if the user is signed in,
\* the entry is owned and its local id has a mapping; otherwise no call is
\* sent; a failed call changes neither list nor mapping.
C14_StepMapped ==
  /\ lastEvent'.name = "adjustQty"
     => C14_Sent(/\ isAuthenticated
                 /\ Entry(ingredients', lastEvent'.id).owned
                 /\ MapGet(backendIngredientMap, lastEvent'.id) # 0)
  /\ C14_FailedPut
C14_AdjustRemoteMapped == [][C14_StepMapped]_vars
C14_Witness ==
  /\ lastEvent.name = "adjustQty" /\ lastEvent.qty = 1200
  /\ \E b \in 1..Len(background) :
       /\ background[b].op = "PUT" /\ background[b].lid = lastEvent.id
       /\ background[b].bid = MapGet(backendIngredientMap, lastEvent.id)
       /\ background[b].qty = 1000
\* the step of deleteIngredient(id): the entry is gone, the others keep their
\* order, and the undo record holds the entry and its index
C15_DeleteStep ==
  lastEvent'.name = "deleteIngredient"
  => LET id == lastEvent'.id
         idx == findIndex(ingredients, id)
     IN  /\ Len(ingredients') = Len(ingredients) - 1
         /\ \A h \in 1..Len(ingredients') :
              ingredients'[h] = ingredients[IF h < idx THEN h ELSE h + 1]
         /\ findIndex(ingredients', id) = 0
         /\ toast'.kind = "delete" /\ toast'.idx = idx
         /\ toast'.removed = <<ingredients[idx]>>
\* the step of the undo of a delete
C15_UndoStep ==
  (lastEvent'.name = "undo" /\ toast.kind = "delete")
  => IF findIndex(ingredients, toast.id) # 0
     THEN ingredients' = ingredients
     ELSE /\ Len(ingredients') = Len(ingredients) + 1
          /\ toast.idx <= Len(ingredients')
          /\ \A h \in 1..Len(ingredients') :
               ingredients'[h] =
                 IF h < toast.idx THEN ingredients[h]
                 ELSE IF h = toast.idx THEN toast.removed[1]
                 ELSE ingredients[h - 1]

\* C15: deleteIngredient(id) removes exactly the entry with that id and keeps
\* the order of the others; the recorded undo, after any operations that did
\* not replace it, re-inserts the same entry with identical fields at its
\* original index, and leaves the list unchanged when an entry with that id
\* is present.
C15_DeleteUndo == [][C15_DeleteStep /\ C15_UndoStep]_vars
C15_Witness ==
  /\ lastEvent.name = "undo" /\ events.mut = 2
  /\ Len(ingredients) >= 2
  /\ \E h \in 1..(Len(ingredients) - 1) :
       ingredients[h].id = lastEvent.id /\ ingredients[h].id[1] = "db"
\* the step of markPurchasedSingle(id)
C16_PurchaseStep ==
  lastEvent'.name = "markPurchasedSingle"
  => /\ Len(ingredients') = Len(ingredients)
     /\ \A h \in 1..Len(ingredients) :
          IF ingredients[h].id = lastEvent'.id
          THEN /\ ~Wanted(ingredients'[h]) /\ ingredients'[h].owned
               /\ Qty(ingredients'[h]) = DefaultQty
          ELSE ingredients'[h] = ingredients[h]
\* the step of the undo of a purchase: `it` is the entry before the purchase
C16_UndoStep ==
  (lastEvent'.name = "undo" /\ toast.kind = "purchased")
  => LET it == toast.removed[1]
         e == Entry(ingredients', toast.id)
     IN  /\ Wanted(e) = Wanted(it)
         /\ e.owned = it.owned
         /\ Qty(e) = Qty(it)

\* C16: markPurchasedSingle(id) leaves the entry with wanted=false,
\* owned=true, quantity=1 and the other entries unchanged; its undo restores
\* the entry's prior wanted, owned and quantity, whatever the flags were
\* (also for an entry that was owned and wanted).
C16_PurchaseUndo == [][C16_PurchaseStep /\ C16_UndoStep]_vars
\* C17: whenever at least one entry is wanted, markPurchased (all) sets
\* wanted=false, owned=true, quantity=1 on every wanted entry and leaves the
\* others unchanged, whatever the search query is; afterwards no entry is
\* wanted.
C17_Step ==
  (/\ lastEvent'.name = "markPurchased"
   /\ \E h \in 1..Len(ingredients) : Wanted(ingredients[h]))
  => /\ Len(ingredients') = Len(ingredients)
     /\ \A h \in 1..Len(ingredients) :
          IF Wanted(ingredients[h])
          THEN /\ ~Wanted(ingredients'[h]) /\ ingredients'[h].owned
               /\ Qty(ingredients'[h]) = DefaultQty
               /\ \A k \in DOMAIN ingredients[h] \ {"wanted", "owned", "qty"} :
                    ingredients'[h][k] = ingredients[h][k]
          ELSE ingredients'[h] = ingredients[h]
C17_PurchaseAll == [][C17_Step]_vars
\* the typed name without its surrounding white space
Trimmed(text) == IF text = " Mint" THEN "Mint" ELSE IF text = "  " THEN "" ELSE text

\* C18: confirming a rename whose trimmed new name is the entry's current
\* name, or is empty, changes nothing in the list, leaves the toast as it was
\* and schedules no cache write and no reconciliation.
C18_Step ==
  (/\ lastEvent'.name = "confirmRename"
   /\ \/ Trimmed(lastEvent'.text) = ""
      \/ Trimmed(lastEvent'.text) = Entry(ingredients, lastEvent'.id).name)
  => UNCHANGED <<ingredients, toast, saveTimeouts, syncTimeouts, storage,
                 passes, background, backendIngredientMap, pantry, events>>
C18_RenameNoOp == [][C18_Step]_vars
C18_Witness ==
  /\ lastEvent.name = "confirmRename" /\ lastEvent.text = " Mint"
  /\ Entry(ingredients, lastEvent.id).name = "Mint"
  /\ toast.kind = "delete"
  /\ saveTimeouts = <<>> /\ syncTimeouts = <<>>
\* list b is list a with the one field of entry id set to value v
SameBut(a, b, id, field, v) ==
  /\ Len(b) = Len(a)
  /\ \A h \in 1..Len(a) :
       IF a[h].id = id
       THEN /\ b[h][field] = v
            /\ DOMAIN b[h] = DOMAIN a[h] \cup {field}
            /\ \A k \in DOMAIN a[h] \ {field} : b[h][k] = a[h][k]
       ELSE b[h] = a[h]

\* the steps of removeFromCabinet and removeFromShopping, with what their
\* undo would give back at once, and the steps of their undos
C19_Step ==
  /\ lastEvent'.name = "removeFromCabinet"
     => /\ SameBut(ingredients, ingredients', lastEvent'.id, "owned", FALSE)
        /\ toast'.kind = "cabinet" /\ toast'.id = lastEvent'.id
        /\ undone(ingredients', toast') = ingredients
  /\ lastEvent'.name = "removeFromShopping"
     => /\ SameBut(ingredients, ingredients', lastEvent'.id, "wanted", FALSE)
        /\ toast'.kind = "shopping" /\ toast'.id = lastEvent'.id
        /\ undone(ingredients', toast') = ingredients
  /\ (lastEvent'.name = "undo" /\ toast.kind = "cabinet")
     => SameBut(ingredients, ingredients', toast.id, "owned", TRUE)
  /\ (lastEvent'.name = "undo" /\ toast.kind = "shopping")
     => SameBut(ingredients, ingredients', toast.id, "wanted", TRUE)

\* C19: removeFromCabinet(id) sets owned=false on the entry and keeps it in
\* the list with its other fields, the length and the order; its undo sets
\* owned=true again, which gives the list before the removal.
\* removeFromShopping does the same for the wanted flag.
C19_SoftRemoval == [][C19_Step]_vars
C19_Witness ==
  /\ lastEvent.name = "removeFromCabinet"
  /\ toast.kind = "cabinet" /\ toast.id = lastEvent.id
  /\ Len(ingredients) >= 2
  /\ \E h \in 1..(Len(ingredients) - 1) :
       /\ ingredients[h].id = lastEvent.id
       /\ ~ingredients[h].owned
       /\ ingredients[h].qty # DefaultQty
\* C20: in every reachable state every key of the local-id -> remote-id
\* mapping is the id of an entry of the in-memory list with owned=true; an
\* entry that is not owned or was deleted has no mapping.
C20_MappingInvariant ==
  \A k \in MapKeys(backendIngredientMap) :
    \E h \in 1..Len(ingredients) :
      ingredients[h].id = k /\ ingredients[h].owned
\* the POST requests sent outside a pass for the entry with local id lid
CreatesFor(bg, lid) == {b \in 1..Len(bg) : bg[b].op = "POST" /\ bg[b].lid = lid}

\* a step of the press on a catalog row
C21_AddStep ==
  lastEvent'.name = "addFromCatalog"
  => /\ Len(ingredients') = Len(ingredients) + 1
     /\ SubSeq(ingredients', 1, Len(ingredients)) = ingredients
     /\ LET new == ingredients'[Len(ingredients')]
            q == lastEvent'.qty
        IN  /\ new.id = lastEvent'.id
            /\ new.owned = (activeTab = "cabinet")
            /\ new.wanted = (activeTab = "shopping")
            /\ new.qty = (IF q < 0 THEN 0 ELSE IF q > 1000 THEN 1000 ELSE q)
            /\ IF new.owned /\ isAuthenticated
               THEN /\ Len(background') = Len(background) + 1
                    /\ SubSeq(background', 1, Len(background)) = background
                    /\ background'[Len(background')].op = "POST"
                    /\ background'[Len(background')].lid = new.id
                    /\ background'[Len(background')].name = new.name
                    /\ background'[Len(background')].qty = new.qty
               ELSE background' = background

\* a step in which a create sent outside a pass is answered with success
C21_CreatedStep ==
  \A b \in 1..Len(background) :
    ( /\ background[b].op = "POST"
      /\ background' = dropAt(background, b)
      /\ nextId' = nextId + 1 )
    => MapGet(backendIngredientMap', background[b].lid) = nextId

\* C21: addFromCatalog appends the new entry to the end of the list, owned
\* exactly when the cabinet tab is active and wanted exactly when the shopping
\* tab is active, its quantity clamped to [0,1]; a remote create is sent at
\* once if and only if the entry is owned and the user is authenticated, and
\* on success the mapping from the new local id to the returned id is recorded.
C21_AddFromCatalog == [][C21_AddStep /\ C21_CreatedStep]_vars
C21_Witness ==
  /\ Len(ingredients) >= 2
  /\ ingredients[Len(ingredients)].id = <<"t", 1>>
  /\ ingredients[Len(ingredients)].owned
  /\ ingredients[Len(ingredients)].qty = 500
  /\ MapGet(backendIngredientMap, <<"t", 1>>) = 3
  /\ CreatesFor(background, <<"t", 1>>) = {}
\* ================================================= the toast's lifecycle
\* the list, the cache and the pantry, left as the screen mounts them
listVars == <<isAuthenticated, ingredients, loading, loadPc,
              backendIngredientMap, saveTimeouts, syncTimeouts, passes,
              storage, pantry, nextId, background, activeTab, events>>
ListStart ==
  /\ isAuthenticated = FALSE
  /\ ingredients = <<>>
  /\ loading = TRUE
  /\ loadPc = "start"
  /\ backendIngredientMap = <<>>
  /\ saveTimeouts = <<>>
  /\ syncTimeouts = <<>>
  /\ passes = <<>>
  /\ storage = null
  /\ pantry = <<>>
  /\ nextId = 3
  /\ background = <<>>
  /\ activeTab = "cabinet"
  /\ events = [mut |-> 0, fail |-> 0, overlap |-> 0]

ToastDelay == 5    \* setTimeout(() => setToast(null), 5000), in seconds
MaxTime == 12      \* the seconds a run lasts
MaxToasts == 3     \* undo records set in one run

\* a variant of the effect that keeps the earlier timeout pending
toastEffect_NoClear(timeouts, ref, t, time) ==
  IF t.kind # "none"
  THEN [timeouts |-> timeouts \cup {[id |-> t.id[2], due |-> time + ToastDelay]},
        ref |-> t.id[2]]
  ELSE [timeouts |-> timeouts, ref |-> 0]

\* the effect on [toast]: clearTimeout(toastTimerRef.current), and for a
\* record a new timeout of 5 s, its handle kept in toastTimerRef
toastEffect(timeouts, ref, t, time) ==
  LET cleared == {x \in timeouts : x.id # ref}
  IN  IF t.kind # "none"
      THEN [timeouts |-> cleared \cup {[id |-> t.id[2],
                                        due |-> time + ToastDelay]},
            ref |-> t.id[2]]
      ELSE [timeouts |-> cleared, ref |-> 0]

\* setToast(t) and the effect of the commit
SetToast(t) ==
  /\ toast' = t
  /\ LET e == toastEffect(toastTimeouts, toastTimerRef, t, now)
     IN  /\ toastTimeouts' = e.timeouts
         /\ toastTimerRef' = e.ref

\* a handler that sets an undo record: setToast({text, onUndo}), a new object
ShowToast(kind) ==
  /\ clock <= MaxToasts
  /\ SetToast([NoToast EXCEPT !.kind = kind, !.id = <<"toast", clock>>])
  /\ clock' = clock + 1
  /\ lastEvent' = [NoEvent EXCEPT !.name = "setToast", !.id = <<"toast", clock>>]
  /\ UNCHANGED <<listVars, now, viewVars, favVars, drinksVars, guardVars>>

\* the press on Undo, rendered while toast is set: onUndo ends in setToast(null)
PressUndo ==
  /\ toast.kind # "none"
  /\ SetToast(NoToast)
  /\ lastEvent' = [NoEvent EXCEPT !.name = "undo", !.id = toast.id]
  /\ UNCHANGED <<listVars, clock, now, viewVars, favVars, drinksVars, guardVars>>

\* a timeout comes due: () => setToast(null); the effect runs when toast changes
ToastTimeout ==
  /\ \E x \in toastTimeouts :
       /\ x.due <= now
       /\ IF toast.kind = "none"
          THEN /\ toastTimeouts' = toastTimeouts \ {x}
               /\ UNCHANGED <<toast, toastTimerRef>>
          ELSE /\ toast' = NoToast
               /\ LET e == toastEffect(toastTimeouts \ {x}, toastTimerRef,
                                       NoToast, now)
                  IN  /\ toastTimeouts' = e.timeouts
                      /\ toastTimerRef' = e.ref
  /\ lastEvent' = NoEvent
  /\ UNCHANGED <<listVars, clock, now, viewVars, favVars, drinksVars, guardVars>>

\* a second passes, no timeout being due
Tick ==
  /\ now < MaxTime
  /\ \A x \in toastTimeouts : x.due > now
  /\ now' = now + 1
  /\ lastEvent' = NoEvent
  /\ UNCHANGED <<listVars, toast, clock, toastTimerRef, toastTimeouts,
                 viewVars, favVars, drinksVars, guardVars>>

ToastInit ==
  /\ ListStart
  /\ toast = NoToast /\ clock = 1 /\ lastEvent = NoEvent
  /\ TimerStart
  /\ ViewStart
  /\ FavStart /\ DrinksStart /\ GuardStart

ToastNext ==
  \/ \E kind \in {"delete", "cabinet"} : ShowToast(kind)
  \/ PressUndo
  \/ ToastTimeout
  \/ Tick

ToastSpec == ToastInit /\ [][ToastNext]_vars

\* the timeout pending for the record that is up
ToastDue == {x.due : x \in {y \in toastTimeouts : y.id = toast.id[2]}}

\* while a record is up exactly one timeout is pending, its own, and the time
\* is not past it; with no record up none is pending
C23_OneWindow ==
  IF toast.kind = "none"
  THEN toastTimeouts = {}
  ELSE /\ Cardinality(toastTimeouts) = 1
       /\ Cardinality(ToastDue) = 1
       /\ \A d \in ToastDue : now <= d

\* the undo can be invoked only while its record is up
C23_NoLateUndo == toast.kind = "none" => ~ENABLED PressUndo

C23_Step ==
  \* a record that is set, first or newer, gets a window of 5 s from now
  /\ (toast' # toast /\ toast'.kind # "none")
     => toastTimeouts' = {[id |-> toast'.id[2], due |-> now + 5]}
  \* a record that stays up keeps its window
  /\ (toast' = toast /\ toast.kind # "none") => toastTimeouts' = toastTimeouts
  \* a record is cleared by its undo, or at the end of its window
  /\ (toast.kind # "none" /\ toast'.kind = "none")
     => \/ lastEvent'.name = "undo" /\ lastEvent'.id = toast.id
        \/ ToastDue = {now}
  \* the undo clears the record
  /\ lastEvent'.name = "undo" => toast' = NoToast

\* C23: a record that is set is cleared 5 seconds later unless its undo is
\* invoked or a newer record replaces it first, and then the 5 seconds start
\* again for the newer record; once the record is cleared its undo can no
\* longer be invoked, and invoking the undo clears the record.
C23_UndoWindow == [](C23_OneWindow /\ C23_NoLateUndo) /\ [][C23_Step]_vars
C23_Witness ==
  /\ toast.id = <<"toast", 2>>
  /\ ToastDue = {8} /\ now = 8
  /\ lastEvent.name = "none"
\* ============================================ the two lists on display
\* the characters of the names of this part
Chars(s) ==
  CASE s = "Lime" -> <<"L", "i", "m", "e">>
    [] s = "lime" -> <<"l", "i", "m", "e">>
    [] s = "Limoncello" -> <<"L", "i", "m", "o", "n", "c", "e", "l", "l", "o">>
    [] s = "Mint" -> <<"M", "i", "n", "t">>

\* String.prototype.toLowerCase, character by character
lowerChar(c) ==
  CASE c = "L" -> "l"
    [] c = "I" -> "i"
    [] c = "M" -> "m"
    [] OTHER -> c
toLowerCaseChars(cs) == [k \in 1..Len(cs) |-> lowerChar(cs[k])]

RECURSIVE trimStart(_)
trimStart(cs) ==
  IF cs # <<>> /\ Head(cs) = " " THEN trimStart(Tail(cs)) ELSE cs
RECURSIVE trimEnd(_)
trimEnd(cs) ==
  IF cs # <<>> /\ cs[Len(cs)] = " "
  THEN trimEnd(SubSeq(cs, 1, Len(cs) - 1))
  ELSE cs
\* String.prototype.trim
trimChars(cs) == trimEnd(trimStart(cs))

RECURSIVE includesChars(_, _)
\* String.prototype.includes: the search from the left
includesChars(cs, q) ==
  IF Len(q) > Len(cs) THEN FALSE
  ELSE IF SubSeq(cs, 1, Len(q)) = q THEN TRUE
  ELSE includesChars(Tail(cs), q)

\* the place of a letter in the alphabet, whatever its case
Rank(c) ==
  CASE lowerChar(c) = "c" -> 3
    [] lowerChar(c) = "e" -> 5
    [] lowerChar(c) = "i" -> 9
    [] lowerChar(c) = "l" -> 12
    [] lowerChar(c) = "m" -> 13
    [] lowerChar(c) = "n" -> 14
    [] lowerChar(c) = "o" -> 15
    [] lowerChar(c) = "t" -> 20
    [] OTHER -> 0

RECURSIVE compareBy(_, _, _)
\* the comparison of two texts letter by letter under the key of weights w
compareBy(a, b, w) ==
  IF a = <<>> /\ b = <<>> THEN 0
  ELSE IF a = <<>> THEN -1
  ELSE IF b = <<>> THEN 1
  ELSE IF w[Head(a)] < w[Head(b)] THEN -1
  ELSE IF w[Head(a)] > w[Head(b)] THEN 1
  ELSE compareBy(Tail(a), Tail(b), w)


\* String.prototype.localeCompare in the default locale: by the letters, and
\* between texts of the same letters the lower case first
localeCompare(a, b) ==
  LET byLetter == compareBy(a, b, [c \in {"L", "I", "M", "c", "e", "i", "l", "m", "n", "o", "t", " ", "x"} |-> Rank(c)])
  IN  IF byLetter # 0 THEN byLetter
      ELSE compareBy(a, b, [c \in {"L", "I", "M", "c", "e", "i", "l", "m", "n", "o", "t", " ", "x"} |-> IF lowerChar(c) = c THEN 0 ELSE 1])

\* Array.prototype.reverse
reverse(list) == [k \in 1..Len(list) |-> list[Len(list) + 1 - k]]

RECURSIVE insertSorted(_, _)
\* i after every entry of the sorted list that does not come after it
insertSorted(acc, i) ==
  IF acc = <<>> THEN <<i>>
  ELSE IF localeCompare(Chars(i.name), Chars(Head(acc).name)) < 0
       THEN <<i>> \o acc
       ELSE <<Head(acc)>> \o insertSorted(Tail(acc), i)

RECURSIVE sorted(_)
\* [...list].sort((a, b) => a.name.localeCompare(b.name)), a stable sort
sorted(list) ==
  IF list = <<>> THEN <<>>
  ELSE insertSorted(sorted(SubSeq(list, 1, Len(list) - 1)), list[Len(list)])

\* a variant of sortByName that ignores the toggle
sortByName_Ascending(list, asc) == sorted(list)

\* sortByName
sortByName(list, asc) == IF asc THEN sorted(list) ELSE reverse(sorted(list))

\* filterByQueryAndCategory
filterByQueryAndCategory(list, typed, cat) ==
  LET q == toLowerCaseChars(trimChars(typed))
      byQuery == IF trimChars(typed) # <<>>
                 THEN SelectSeq(list, LAMBDA i :
                        includesChars(toLowerCaseChars(Chars(i.name)), q))
                 ELSE list
  IN  IF cat # "All"
      THEN SelectSeq(byQuery, LAMBDA i : i.category = cat)
      ELSE byQuery

\* the useMemo values cabinetItems and shoppingItems
memoItems(list, typed, cat, asc) ==
  [cabinetItems |->
     sortByName(filterByQueryAndCategory(
       SelectSeq(list, LAMBDA i : i.owned), typed, cat), asc),
   shoppingItems |->
     sortByName(filterByQueryAndCategory(
       SelectSeq(list, LAMBDA i : Wanted(i)), typed, cat), asc)]

\* the chips: 'All' and the categories of the list
categories(list) == {"All"} \cup {list[k].category : k \in 1..Len(list)}

\* the entries a list on display is made of
ViewEntries ==
  { [id |-> <<"db", 1>>, name |-> "Mint", category |-> "Other", owned |-> TRUE],
    [id |-> <<"db", 2>>, name |-> "Limoncello", category |-> "Spirit",
     owned |-> TRUE, wanted |-> TRUE],
    [id |-> <<"db", 3>>, name |-> "Lime", category |-> "Other", owned |-> TRUE,
     wanted |-> FALSE],
    [id |-> <<"t", 1>>, name |-> "lime", category |-> "Other", owned |-> FALSE,
     wanted |-> TRUE],
    [id |-> <<"t", 2>>, name |-> "Lime", category |-> "Spirit", owned |-> TRUE,
     wanted |-> TRUE] }

MaxShown == 3    \* entries in a list on display

\* the lists of up to MaxShown entries, no entry twice
ViewLists ==
  UNION { { l \in [1..n -> ViewEntries] :
              \A a, b \in 1..n : a # b => l[a] # l[b] } : n \in 0..MaxShown }



\* setQuery, from the search bar
setQuery(typed) ==
  /\ typed # query
  /\ query' = typed
  /\ memo' = memoItems(ingredients, typed, categoryFilter, sortAsc)
  /\ UNCHANGED <<ingredients, sortAsc, categoryFilter, isAuthenticated, loading, loadPc, backendIngredientMap, saveTimeouts, syncTimeouts, passes, storage, pantry, nextId, background, activeTab, events, toast, clock, lastEvent, timerVars, favVars, drinksVars, guardVars>>

\* setCategoryFilter, from a chip
setCategoryFilter(cat) ==
  /\ cat \in categories(ingredients)
  /\ cat # categoryFilter
  /\ categoryFilter' = cat
  /\ memo' = memoItems(ingredients, query, cat, sortAsc)
  /\ UNCHANGED <<ingredients, query, sortAsc, isAuthenticated, loading, loadPc, backendIngredientMap, saveTimeouts, syncTimeouts, passes, storage, pantry, nextId, background, activeTab, events, toast, clock, lastEvent, timerVars, favVars, drinksVars, guardVars>>

\* setSortAsc((s) => !s), from the A-Z chip
setSortAsc ==
  /\ sortAsc' = ~sortAsc
  /\ memo' = memoItems(ingredients, query, categoryFilter, ~sortAsc)
  /\ UNCHANGED <<ingredients, query, categoryFilter, isAuthenticated, loading, loadPc, backendIngredientMap, saveTimeouts, syncTimeouts, passes, storage, pantry, nextId, background, activeTab, events, toast, clock, lastEvent, timerVars, favVars, drinksVars, guardVars>>

ViewInit ==
  /\ ingredients \in ViewLists
  /\ isAuthenticated = FALSE
  /\ loading = FALSE
  /\ loadPc = "done"
  /\ backendIngredientMap = <<>>
  /\ saveTimeouts = <<>>
  /\ syncTimeouts = <<>>
  /\ passes = <<>>
  /\ storage = null
  /\ pantry = <<>>
  /\ nextId = 3
  /\ background = <<>>
  /\ activeTab = "cabinet"
  /\ events = [mut |-> 0, fail |-> 0, overlap |-> 0]
  /\ toast = NoToast /\ clock = 1 /\ lastEvent = NoEvent
  /\ TimerStart
  /\ FavStart /\ DrinksStart /\ GuardStart
  /\ query = <<>> /\ sortAsc = TRUE /\ categoryFilter = "All"
  /\ memo = memoItems(ingredients, <<>>, "All", TRUE)

ViewNext ==
  \/ \E typed \in { <<>>, <<" ">>, <<"l", "i", "m">>, <<" ", "L", "I", "M", " ">>, <<"m", "i">>, <<"x">> } : setQuery(typed)
  \/ \E cat \in {"All", "Other", "Spirit"} : setCategoryFilter(cat)
  \/ setSortAsc

ViewSpec == ViewInit /\ [][ViewNext]_vars

\* text q occurs in text cs
Occurs(cs, q) ==
  \E k \in 0..(Len(cs) - Len(q)) : SubSeq(cs, k + 1, k + Len(q)) = q

\* entry i passes the search bar's text and the chip
Passes(i) ==
  /\ Occurs(toLowerCaseChars(Chars(i.name)), toLowerCaseChars(trimChars(query)))
  /\ categoryFilter = "All" \/ i.category = categoryFilter

\* view read in ascending order holds exactly the entries of `wanted`, each
\* once, none before an entry whose name comes before its own
ShowsExactly(view, wanted) ==
  LET asc == IF sortAsc THEN view ELSE reverse(view)
  IN  /\ {asc[k] : k \in 1..Len(asc)} = wanted
      /\ Len(asc) = Cardinality(wanted)
      /\ \A a, b \in 1..Len(asc) :
           a < b => localeCompare(Chars(asc[a].name), Chars(asc[b].name)) <= 0

C22_Views ==
  /\ ShowsExactly(memo.cabinetItems,
       {ingredients[k] : k \in {h \in 1..Len(ingredients) :
          ingredients[h].owned /\ Passes(ingredients[h])}})
  /\ ShowsExactly(memo.shoppingItems,
       {ingredients[k] : k \in {h \in 1..Len(ingredients) :
          Wanted(ingredients[h]) /\ Passes(ingredients[h])}})

\* the toggle turns each list around and leaves the in-memory list alone
C22_Toggle ==
  sortAsc' # sortAsc
  => /\ memo'.cabinetItems = reverse(memo.cabinetItems)
     /\ memo'.shoppingItems = reverse(memo.shoppingItems)
     /\ ingredients' = ingredients

\* C22: the cabinet (shopping) list on display is exactly the owned (wanted)
\* entries whose lower-cased name contains the trimmed lower-cased query and
\* whose category is the chip's (or the chip is All), sorted by name
\* ascending; with the toggle off it is the exact reverse of the ascending
\* list; the in-memory list is not reordered.
C22_Display == []C22_Views /\ [][C22_Toggle /\ ingredients' = ingredients]_vars
C22_Witness ==
  /\ [k \in 1..Len(ingredients) |-> ingredients[k].name]
       = <<"Mint", "Limoncello", "Lime">>
  /\ query = <<"l", "i", "m">> /\ sortAsc /\ categoryFilter = "All"
  /\ [k \in 1..Len(memo.cabinetItems) |-> memo.cabinetItems[k].name]
       = <<"Lime", "Limoncello">>
\* ========================================================= lib/favorites
MaxFavCalls == 3    \* calls of lib/favorites in one run

\* AsyncStorage values: nothing stored, JSON.stringify(map) by the ids the
\* map holds, or a text that is not the JSON of an object
NoItem == [kind |-> "null", ids |-> {}]
jsonOf(map) == [kind |-> "json", ids |-> map]
Garbage == [kind |-> "garbage", ids |-> {}]

\* getKey
getKey(userId) ==
  IF userId = NoUser THEN "favorites:anonymous"
  ELSE IF userId = "u1" THEN "favorites:u1" ELSE "favorites:u2"

\* read, after getItem: {} for nothing stored and for what does not parse
\* to an object
favParse(raw) == IF raw.kind = "json" THEN raw.ids ELSE {}

\* a variant of the toggle that returns the state it found
toggled_Found(map, id) ==
  [map |-> IF id \in map THEN map \ {id} ELSE map \cup {id},
   result |-> id \in map]

\* toggleFavorite between its read and its write: the new map and !exists
toggled(map, id) ==
  [map |-> IF id \in map THEN map \ {id} ELSE map \cup {id},
   result |-> id \notin map]

NoCall ==
  [op |-> "none", id |-> "", user |-> NoUser, pc |-> "done", readKey |-> "",
   writeKey |-> "", map |-> {}, result |-> "void", alone |-> FALSE,
   before |-> {}, after |-> {}]

InFlight(calls) == {c \in 1..Len(calls) : calls[c].pc # "done"}

\* the calls in flight are no longer alone
Disturbed(calls) ==
  [c \in 1..Len(calls) |->
     IF calls[c].pc # "done" THEN [calls[c] EXCEPT !.alone = FALSE]
     ELSE calls[c]]


\* addFavorite, removeFavorite or toggleFavorite is called: without a user it
\* returns at once; with one, read() takes its key and awaits getItem
FavCall(op, id) ==
  /\ Len(favCalls) < MaxFavCalls
  /\ favCalls' =
       Append(Disturbed(favCalls),
         IF currentUserId = NoUser
         THEN [NoCall EXCEPT !.op = op, !.id = id,
                 !.result = IF op = "toggle" THEN "false" ELSE "void",
                 !.alone = InFlight(favCalls) = {}]
         ELSE [NoCall EXCEPT !.op = op, !.id = id, !.user = currentUserId,
                 !.pc = "getItem", !.readKey = getKey(currentUserId),
                 !.alone = InFlight(favCalls) = {},
                 !.before = favParse(favStorage[getKey(currentUserId)])])
  /\ UNCHANGED <<currentUserId, favStorage, listVars, toast, clock, lastEvent, timerVars, viewVars, drinksVars, guardVars>>

\* AsyncStorage.getItem(key) reads the item
FavGetItem(c) ==
  /\ favCalls[c].pc = "getItem"
  /\ favCalls' = [favCalls EXCEPT ![c].pc = "resume",
                    ![c].map = favParse(favStorage[favCalls[c].readKey])]
  /\ UNCHANGED <<currentUserId, favStorage, listVars, toast, clock, lastEvent, timerVars, viewVars, drinksVars, guardVars>>

\* the call goes on after `await read()`: it changes the map and calls
\* write(map), which takes its key, or returns without a write
FavResume(c) ==
  /\ favCalls[c].pc = "resume"
  /\ LET call == favCalls[c]
         t == toggled(call.map, call.id)
     IN  favCalls' =
           [favCalls EXCEPT ![c] =
              CASE call.op = "add" ->
                     [call EXCEPT !.pc = "setItem",
                        !.map = call.map \cup {call.id},
                        !.writeKey = getKey(currentUserId)]
                [] call.op = "remove" ->
                     IF call.id \in call.map
                     THEN [call EXCEPT !.pc = "setItem",
                             !.map = call.map \ {call.id},
                             !.writeKey = getKey(currentUserId)]
                     ELSE [call EXCEPT !.pc = "done",
                             !.after = favParse(favStorage[getKey(call.user)])]
                [] call.op = "toggle" ->
                     [call EXCEPT !.pc = "setItem", !.map = t.map,
                        !.result = IF t.result THEN "true" ELSE "false",
                        !.writeKey = getKey(currentUserId)]]
  /\ UNCHANGED <<currentUserId, favStorage, listVars, toast, clock, lastEvent, timerVars, viewVars, drinksVars, guardVars>>

\* AsyncStorage.setItem(key, JSON.stringify(map)) writes, and the call returns
FavSetItem(c) ==
  /\ favCalls[c].pc = "setItem"
  /\ favStorage' = [favStorage EXCEPT ![favCalls[c].writeKey] =
                      jsonOf(favCalls[c].map)]
  /\ favCalls' = [favCalls EXCEPT ![c].pc = "done",
                    ![c].after = favParse(favStorage'[getKey(favCalls[c].user)])]
  /\ UNCHANGED <<currentUserId, listVars, toast, clock, lastEvent, timerVars, viewVars, drinksVars, guardVars>>

\* setFavoritesUser(userId)
setFavoritesUser(userId) ==
  /\ Len(favCalls) < MaxFavCalls
  /\ userId # currentUserId
  /\ currentUserId' = userId
  /\ favCalls' = Append(Disturbed(favCalls),
                        [NoCall EXCEPT !.op = "setUser", !.user = userId])
  /\ UNCHANGED <<favStorage, listVars, toast, clock, lastEvent, timerVars, viewVars, drinksVars, guardVars>>

\* clearFavoritesUser()
clearFavoritesUser ==
  /\ Len(favCalls) < MaxFavCalls
  /\ currentUserId # NoUser
  /\ currentUserId' = NoUser
  /\ favCalls' = Append(Disturbed(favCalls), [NoCall EXCEPT !.op = "clearUser"])
  /\ UNCHANGED <<favStorage, listVars, toast, clock, lastEvent, timerVars, viewVars, drinksVars, guardVars>>

FavInit ==
  /\ ListStart
  /\ toast = NoToast /\ clock = 1 /\ lastEvent = NoEvent
  /\ TimerStart
  /\ ViewStart
  /\ DrinksStart
  /\ GuardStart
  /\ currentUserId \in {NoUser, "u1"}
  /\ favStorage \in {[k \in FavKeys |-> IF k = "favorites:u1" THEN v ELSE NoItem] :
                       v \in {NoItem, Garbage, jsonOf({"a"})}}
  /\ favCalls = <<>>

FavNext ==
  \/ \E op \in {"add", "remove", "toggle"}, id \in {"a", "b"} : FavCall(op, id)
  \/ \E c \in 1..Len(favCalls) : FavGetItem(c)
  \/ \E c \in 1..Len(favCalls) : FavResume(c)
  \/ \E c \in 1..Len(favCalls) : FavSetItem(c)
  \/ \E userId \in {"u1", "u2"} : setFavoritesUser(userId)
  \/ clearFavoritesUser

FavSpec == FavInit /\ [][FavNext]_vars
\* call c returns in this step
Returns(c) ==
  \/ c <= Len(favCalls) /\ favCalls[c].pc # "done" /\ favCalls'[c].pc = "done"
  \/ c = Len(favCalls) + 1 /\ Len(favCalls') = c /\ favCalls'[c].pc = "done"

\* the ids stored for user u
StoredFor(store, u) == favParse(store[getKey(u)])

\* a toggleFavorite that ran alone returns the membership it leaves, which is
\* the opposite of the one it found; without a user it returns false and
\* nothing is written
C24_Step ==
  \A c \in 1..Len(favCalls') :
    (Returns(c) /\ favCalls'[c].op = "toggle")
    => LET call == favCalls'[c]
       IN  IF call.user = NoUser
           THEN call.result = "false" /\ favStorage' = favStorage
           ELSE call.alone
                => /\ call.result = "true" <=> call.id \in StoredFor(favStorage', call.user)
                   /\ call.result = "false" <=> call.id \notin StoredFor(favStorage', call.user)
                   /\ (call.id \in StoredFor(favStorage', call.user))
                        # (call.id \in call.before)
                   /\ StoredFor(favStorage', call.user) \ {call.id}
                        = call.before \ {call.id}

\* two toggles of one item, one after the other and alone, give back the
\* membership the first one found
C24_Twice ==
  \A c \in 1..(Len(favCalls) - 1) :
    LET one == favCalls[c]
        two == favCalls[c + 1]
    IN  ( /\ one.op = "toggle" /\ two.op = "toggle"
          /\ one.pc = "done" /\ two.pc = "done"
          /\ one.alone /\ two.alone
          /\ one.user # NoUser /\ two.user = one.user /\ two.id = one.id )
        => two.after = one.before

\* C24: with a user set and no other call of the module under way,
\* toggleFavorite(item) returns true exactly when item.id is stored as a
\* favorite after the call and false exactly when it is absent, so two
\* successive toggles restore the membership; with no user set it returns
\* false and writes nothing.
C24_ToggleReturns == []C24_Twice /\ [][C24_Step]_vars
C24_Witness ==
  /\ Len(favCalls) = 3
  /\ favCalls[1].op = "add" /\ favCalls[1].id = "b"
  /\ \A c \in {2, 3} :
       /\ favCalls[c].op = "toggle" /\ favCalls[c].id = "a"
       /\ favCalls[c].pc = "done" /\ favCalls[c].alone
       /\ favCalls[c].user = "u1"
  /\ favCalls[2].result = "false" /\ favCalls[3].result = "true"
  /\ favStorage["favorites:u1"] = jsonOf({"a", "b"})
\* the calls that change the stored map
DataCalls == {c \in 1..Len(favCalls) : favCalls[c].op \in {"add", "remove", "toggle"}}

\* C27: when calls of addFavorite, removeFavorite or toggleFavorite on
\* different ids for one user have all completed, however their reads and
\* writes interleaved, the stored map reflects every one of them.
C27_NoLostUpdate ==
  ( /\ DataCalls = 1..Len(favCalls)
    /\ \A c \in DataCalls : favCalls[c].pc = "done" /\ favCalls[c].user = "u1"
    /\ \A c, d \in DataCalls : c # d => favCalls[c].id # favCalls[d].id )
  => \A c \in DataCalls :
       LET call == favCalls[c]
           stored == call.id \in StoredFor(favStorage, "u1")
       IN  CASE call.op = "add" -> stored
             [] call.op = "remove" -> ~stored
             [] call.op = "toggle" -> stored # (call.id \in favCalls[1].before)

\* C28: a map is written only under the storage key of the user for whom it
\* was read, also when setFavoritesUser or clearFavoritesUser runs while a
\* call is between its read and its write.
C28_Isolation ==
  \A c \in 1..Len(favCalls) :
    (favCalls[c].pc = "done" /\ favCalls[c].writeKey # "")
    => favCalls[c].writeKey = favCalls[c].readKey
\* ============================================ DrinksProvider, HomeScreen
MaxDrinksEvents == 3    \* pulls to refresh and clearDrinks calls in one run


\* refreshDrinks, the callback of the render `closure`: `if (loading) return`
\* reads the render's loading; else setLoading(true) and getRandomDrinks(8)
refreshDrinks(closure) ==
  IF closure.loading
  THEN UNCHANGED <<drinksLoading, fetches>>
  ELSE /\ drinksLoading' = TRUE
       /\ fetches' = Append(fetches, [initialized |-> closure.initialized])

\* the provider renders with its state; refreshDrinks is a new callback, so
\* HomeScreen's effect is due
Render ==
  /\ rendered # [loading |-> drinksLoading, initialized |-> initialized]
  /\ rendered' = [loading |-> drinksLoading, initialized |-> initialized]
  /\ effectPending' = TRUE
  /\ UNCHANGED <<drinksLoading, initialized, fetches, drinksEvents, listVars, toast, clock, lastEvent, timerVars, viewVars, favVars, guardVars>>

\* HomeScreen's effect: if (!initialized) void refreshDrinks()
HomeEffect ==
  /\ effectPending
  /\ effectPending' = FALSE
  /\ IF rendered.initialized
     THEN UNCHANGED <<drinksLoading, fetches>>
     ELSE refreshDrinks(rendered)
  /\ UNCHANGED <<initialized, rendered, drinksEvents, listVars, toast, clock, lastEvent, timerVars, viewVars, favVars, guardVars>>

\* handleRefresh, the pull to refresh: await refreshDrinks()
handleRefresh ==
  /\ ~effectPending
  /\ drinksEvents < MaxDrinksEvents
  /\ drinksEvents' = drinksEvents + 1
  /\ refreshDrinks(rendered)
  /\ UNCHANGED <<initialized, rendered, effectPending, listVars, toast, clock, lastEvent, timerVars, viewVars, favVars, guardVars>>

\* getRandomDrinks settles: setDrinks and setInitialized(true), or the catch;
\* finally setLoading(false)
FetchSettles(f, ok) ==
  /\ fetches' = dropAt(fetches, f)
  /\ initialized' = IF ok \/ ~fetches[f].initialized THEN TRUE ELSE initialized
  /\ drinksLoading' = FALSE
  /\ UNCHANGED <<rendered, effectPending, drinksEvents, listVars, toast, clock, lastEvent, timerVars, viewVars, favVars, guardVars>>

\* clearDrinks, on logout
clearDrinks ==
  /\ ~effectPending
  /\ drinksEvents < MaxDrinksEvents
  /\ drinksEvents' = drinksEvents + 1
  /\ initialized' = FALSE
  /\ drinksLoading' = FALSE
  /\ UNCHANGED <<rendered, effectPending, fetches, listVars, toast, clock, lastEvent, timerVars, viewVars, favVars, guardVars>>

DrinksInit ==
  /\ ListStart
  /\ toast = NoToast /\ clock = 1 /\ lastEvent = NoEvent
  /\ TimerStart
  /\ ViewStart
  /\ FavStart
  /\ GuardStart
  /\ DrinksStart

DrinksNext ==
  \/ Render
  \/ HomeEffect
  \/ handleRefresh
  \/ \E f \in 1..Len(fetches), ok \in BOOLEAN : FetchSettles(f, ok)
  \/ clearDrinks

DrinksSpec == DrinksInit /\ [][DrinksNext]_vars

\* C25: at most one getRandomDrinks request is in flight in every reachable
\* state, also when refreshDrinks is called twice before the loading state
\* set by the first call is visible to the second.
C25_OneFetch == Len(fetches) <= 1
\* ============================================================ AuthGuard
MaxRedirects == 3    \* router.replace calls counted in a row

Login == <<"(auth)", "login">>
ProfileSetup == <<"(auth)", "profile-setup">>
Home == <<"(tabs)", "home">>
\* the routes of the app, the index route having no segment
Routes ==
  { <<>>, Login, ProfileSetup, Home, <<"(tabs)", "cabinet">>,
    <<"(tabs)", "favorites">>, <<"(tabs)", "profile">>,
    <<"(stack)", "change-password">>, <<"drink", "[drinkId]">> }
NoRedirect == <<"none">>

\* segments[k], undefined past the end
segment(segs, k) == IF k <= Len(segs) THEN segs[k] ELSE "undefined"

\* a variant of the guard that sends every onboarded user to home
guardTarget_AlwaysHome(ready, busy, auth, onboarding, segs) ==
  IF ~ready \/ busy THEN NoRedirect
  ELSE IF ~auth
       THEN IF segment(segs, 1) # "(auth)" THEN Login ELSE NoRedirect
       ELSE IF onboarding
            THEN IF segment(segs, 2) # "profile-setup"
                 THEN ProfileSetup ELSE NoRedirect
            ELSE Home

\* the effect of AuthGuard: the route it replaces the current one with
guardTarget(ready, busy, auth, onboarding, segs) ==
  IF ~ready \/ busy THEN NoRedirect
  ELSE LET inAuthGroup == segment(segs, 1) = "(auth)"
           inOnboarding == segment(segs, 2) = "profile-setup"
       IN  IF ~auth
           THEN IF ~inAuthGroup THEN Login ELSE NoRedirect
           ELSE IF onboarding
                THEN IF ~inOnboarding THEN ProfileSetup ELSE NoRedirect
                ELSE IF inAuthGroup THEN Home ELSE NoRedirect


\* the effect runs and calls router.replace
GuardRedirect ==
  /\ redirects < MaxRedirects
  /\ guardTarget(navigationKey, isLoading, isAuthenticated, needsOnboarding,
                 segments) # NoRedirect
  /\ segments' = guardTarget(navigationKey, isLoading, isAuthenticated,
                             needsOnboarding, segments)
  /\ redirects' = redirects + 1
  /\ UNCHANGED <<navigationKey, isLoading, isAuthenticated, needsOnboarding,
                 ingredients, loading, loadPc, backendIngredientMap, saveTimeouts, syncTimeouts, passes, storage, pantry, nextId, background, activeTab, events, toast, clock, lastEvent, timerVars, viewVars, favVars, drinksVars>>

\* the root navigator mounts: navigationState.key is set
NavigationReady ==
  /\ ~navigationKey
  /\ navigationKey' = TRUE
  /\ UNCHANGED <<isLoading, isAuthenticated, needsOnboarding, segments,
                 redirects, ingredients, loading, loadPc, backendIngredientMap, saveTimeouts, syncTimeouts, passes, storage, pantry, nextId, background, activeTab, events, toast, clock, lastEvent, timerVars, viewVars, favVars, drinksVars>>

\* the auth context changes: the session check ends, or the user signs in,
\* signs out or completes the profile setup
AuthChanges(auth, onboarding) ==
  /\ isLoading \/ auth # isAuthenticated \/ onboarding # needsOnboarding
  /\ isLoading' = FALSE
  /\ isAuthenticated' = auth
  /\ needsOnboarding' = onboarding
  /\ redirects' = 0
  /\ UNCHANGED <<navigationKey, segments, ingredients, loading, loadPc, backendIngredientMap, saveTimeouts, syncTimeouts, passes, storage, pantry, nextId, background, activeTab, events, toast, clock, lastEvent, timerVars, viewVars, favVars, drinksVars>>

\* the user or a screen navigates
Navigate(route) ==
  /\ route # segments
  /\ segments' = route
  /\ redirects' = 0
  /\ UNCHANGED <<navigationKey, isLoading, isAuthenticated, needsOnboarding,
                 ingredients, loading, loadPc, backendIngredientMap, saveTimeouts, syncTimeouts, passes, storage, pantry, nextId, background, activeTab, events, toast, clock, lastEvent, timerVars, viewVars, favVars, drinksVars>>

GuardInit ==
  /\ isAuthenticated \in BOOLEAN
  /\ ingredients = <<>>
  /\ loading = TRUE
  /\ loadPc = "start"
  /\ backendIngredientMap = <<>>
  /\ saveTimeouts = <<>>
  /\ syncTimeouts = <<>>
  /\ passes = <<>>
  /\ storage = null
  /\ pantry = <<>>
  /\ nextId = 3
  /\ background = <<>>
  /\ activeTab = "cabinet"
  /\ events = [mut |-> 0, fail |-> 0, overlap |-> 0]
  /\ toast = NoToast /\ clock = 1 /\ lastEvent = NoEvent
  /\ TimerStart
  /\ ViewStart
  /\ FavStart
  /\ DrinksStart
  /\ navigationKey = FALSE
  /\ isLoading = TRUE
  /\ needsOnboarding \in BOOLEAN
  /\ segments \in Routes
  /\ redirects = 0

GuardNext ==
  \/ GuardRedirect
  \/ NavigationReady
  \/ \E auth \in BOOLEAN, onboarding \in BOOLEAN : AuthChanges(auth, onboarding)
  \/ \E route \in Routes : Navigate(route)

GuardSpec == GuardInit /\ [][GuardNext]_vars

\* the redirect the guard owes in this state, none while it waits
C26_Due ==
  IF ~navigationKey \/ isLoading THEN NoRedirect
  ELSE IF ~isAuthenticated /\ segment(segments, 1) # "(auth)" THEN Login
  ELSE IF isAuthenticated /\ needsOnboarding
          /\ segment(segments, 2) # "profile-setup" THEN ProfileSetup
  ELSE IF isAuthenticated /\ ~needsOnboarding
          /\ segment(segments, 1) = "(auth)" THEN Home
  ELSE NoRedirect

\* the guard redirects exactly when a redirect is due, and to the due route;
\* a second redirect in a row is never due
C26_Redirects ==
  /\ (redirects = 0 /\ C26_Due # NoRedirect) => ENABLED GuardRedirect
  /\ C26_Due = NoRedirect => ~ENABLED GuardRedirect
  /\ redirects >= 1 => C26_Due = NoRedirect
  /\ redirects <= 1

C26_Step == redirects' = redirects + 1 => segments' = C26_Due

\* C26: once the navigation is ready and the auth loading is done, an
\* unauthenticated user outside (auth) is redirected to login, an
\* authenticated user who needs onboarding and is not on profile-setup to
\* profile-setup, an authenticated onboarded user inside (auth) to home; no
\* redirect is issued otherwise or while loading; from any route and auth
\* state the guard settles after at most one redirect.
C26_Routing == []C26_Redirects /\ [][C26_Step]_vars
C26_Witness ==
  /\ redirects = 1 /\ segments = ProfileSetup
  /\ isAuthenticated /\ needsOnboarding /\ navigationKey /\ ~isLoading
\* the create calls for local id lid: those sent outside a pass and not yet
\* answered, and those the passes in flight have sent
CreateCount(lid) ==
  LET inPass(ps) ==
        Cardinality(CallsFor(ps, "POST", lid))
          + (IF ps.pc = "post" /\ ps.req.lid = lid THEN 1 ELSE 0)
      RECURSIVE sum(_)
      sum(k) == IF k = 0 THEN 0 ELSE inPass(passes[k]) + sum(k - 1)
  IN  Cardinality(CreatesFor(background, lid)) + sum(Len(passes))

\* C29: with all remote calls succeeding, the client never issues two create
\* calls for the same local owned entry, whatever the interleaving of the
\* immediate create of addFromCatalog, the passes and the local mutations.
C29_NoDuplicateCreate ==
  events.fail = 0
  => \A j \in 1..Len(ingredients) : CreateCount(ingredients[j].id) <= 1
\* the signed-in user's list never holds the entry that only the cache has,
\* and no create call is made for it
C30_NoCachedEntry ==
  isAuthenticated
  => /\ \A j \in 1..Len(ingredients) : ingredients[j].id # LegacyEntry.id
     /\ CreateCount(LegacyEntry.id) = 0
     /\ \A c \in 1..Len(background) : background[c].lid # LegacyEntry.id
     /\ \A p \in 1..Len(passes) :
          \A j \in 1..Len(passes[p].list) :
            passes[p].list[j].id # LegacyEntry.id

\* the end of the load of a signed-in user over a cache that is there: the
\* step sets no entry
C30_LoadStep ==
  (isAuthenticated /\ storage # null
     /\ loadPc \in {"loaded", "fallback"} /\ loadPc' = "done")
  => ingredients' = ingredients

====
